---- MODULE Spec2Model ----
(***************************************************************************)
(* Survivalcraft chunks-file decoder (chunks/common.py, chunks/decode.py). *)
(*                                                                         *)
(* Python integers are unbounded, so the integers that the bit operations  *)
(* of extract_bits work on are modelled as bit sequences, least            *)
(* significant bit first, with no most significant zero bit (the integer 0 *)
(* is the empty sequence).  Small integers (coordinates, field values,     *)
(* offsets) are plain integers.                                            *)
(***************************************************************************)
EXTENDS Integers, Sequences, FiniteSets, TLC

VARIABLES
    call,       \* SpecFn: the function call under evaluation, <<name, args...>>
    ret,        \* SpecFn: its outcome, <<"pending">>, <<"ok", v>> or <<"raise", e>>
    decoder,    \* Spec: the decoder class in use, "128" or "129"
    file,       \* Spec: the chunks file, [dir |-> entries, chunks |-> offset :> chunk,
                \*       size |-> number of bytes]
    pos,        \* Spec: the file object's position
    pc,         \* Spec: where the read_blocks / read_surface generator stands
    section,    \* Spec: "blocks" for read_blocks, "surface" for read_surface
    directory,  \* Spec: the array of offsets read_directory returned
    k,          \* Spec: number of offsets of `directory` already iterated
    out,        \* Spec: the records yielded so far, one batch per chunk
    err,        \* Spec: the exception that ended the generator, "" if none
    args,       \* SpecMain: the Namespace that handle_args returned
    mpc,        \* SpecMain: where main stands
    opened,     \* SpecMain: whether the chunks file has been opened
    offsets,    \* SpecMain: the dict (x, y) -> elev + rel_offset built so far
    rows,       \* SpecMain: what has been written to the CSV file, row by row
    status,     \* SpecMain: <<"running">>, or <<"exit", n>> once the script ended
    suspended   \* SpecShared: the generator that is suspended while the one
                \*       in pc, section, directory, k, out, err runs; <<>> if none

fnvars == <<call, ret>>
rdvars == <<decoder, file, pos, pc, section, directory, k, out, err>>
mnvars == <<args, mpc, opened, offsets, rows, status>>
vars == <<call, ret, decoder, file, pos, pc, section, directory, k, out, err,
          args, mpc, opened, offsets, rows, status, suspended>>

(***************************************************************************)
(* Bounds of the model.                                                    *)
(***************************************************************************)
MaxValue == 40      \* extract_bits is tried on every n in 0..MaxValue
MaxWidth == 6       \* ... every n_bits in -MaxWidth..MaxWidth
MaxOffset == 8      \* ... every offset_from_lsb in -1..MaxOffset
MaxChunkCoord == 3  \* chunk grid coordinates 0..MaxChunkCoord
MaxIndex == 8       \* offset_from_index is tried on every index in -2..MaxIndex
NSlots == 3         \* leading directory entries that are chosen freely

(***************************************************************************)
(* Python integers as bit sequences.                                       *)
(***************************************************************************)
\* the first n bits of b without the zero bits above their highest set bit
RECURSIVE TrimTo(_, _)
TrimTo(b, n) == IF n = 0 THEN <<>>
                ELSE IF b[n] = 0 THEN TrimTo(b, n - 1)
                ELSE IF n = Len(b) THEN b ELSE SubSeq(b, 1, n)

Trim(b) == TrimTo(b, Len(b))

RECURSIVE NatToBits(_)
NatToBits(n) == IF n = 0 THEN <<>> ELSE <<n % 2>> \o NatToBits(n \div 2)

RECURSIVE BitsToNat(_)
BitsToNat(b) == IF b = <<>> THEN 0 ELSE b[1] + 2 * BitsToNat(Tail(b))

Zeros(n) == [i \in 1..n |-> 0]

\* The value of 2**n_bits: <<"int", bits>>, or <<"float">> for a negative exponent
PyPow2(e) == IF e < 0 THEN <<"float">> ELSE <<"int", Zeros(e) \o <<1>>>>

\* b - 1 on the bits of an integer b >= 1
RECURSIVE DecBits(_)
DecBits(b) == IF b[1] = 1 THEN Trim(<<0>> \o Tail(b))
              ELSE <<1>> \o DecBits(Tail(b))

\* v - 1 for v an integer >= 1 or a float
PyDec(v) == IF v[1] = "float" THEN <<"float">> ELSE <<"int", DecBits(v[2])>>

\* v << s: TypeError for a float, ValueError for a negative shift count
PyLshift(v, s) == IF v[1] = "float" THEN <<"raise", "TypeError">>
                  ELSE IF s < 0 THEN <<"raise", "ValueError">>
                  ELSE <<"ok", Trim(Zeros(s) \o v[2])>>

\* a & b
PyAnd(a, b) ==
    LET n == IF Len(a) < Len(b) THEN Len(a) ELSE Len(b)
    IN  Trim([i \in 1..n |-> IF a[i] = 1 /\ b[i] = 1 THEN 1 ELSE 0])

\* a | b
PyOr(a, b) ==
    LET n == IF Len(a) < Len(b) THEN Len(b) ELSE Len(a)
        bit(s, i) == IF i <= Len(s) THEN s[i] ELSE 0
    IN  Trim([i \in 1..n |-> IF bit(a, i) = 1 \/ bit(b, i) = 1 THEN 1 ELSE 0])

\* v >> s for s >= 0
PyRshift(v, s) == IF s >= Len(v) THEN <<>> ELSE SubSeq(v, s + 1, Len(v))

(***************************************************************************)
(* chunks/common.py                                                        *)
(***************************************************************************)
\* extract_bits with the except clause left out: the TypeError escapes
extract_bits_uncaught(n, n_bits, offset_from_lsb) ==
    LET bitmask == PyLshift(PyDec(PyPow2(n_bits)), offset_from_lsb)
    IN  IF bitmask[1] = "raise" THEN bitmask
        ELSE <<"ok", PyRshift(PyAnd(n, bitmask[2]), offset_from_lsb)>>

\* extract_bits with the mask left unshifted
extract_bits_unshifted(n, n_bits, offset_from_lsb) ==
    LET bitmask == PyLshift(PyDec(PyPow2(n_bits)), offset_from_lsb)
    IN  IF bitmask[1] = "raise" THEN <<"raise", "ValueError">>
        ELSE <<"ok", PyRshift(PyAnd(n, PyDec(PyPow2(n_bits))[2]), offset_from_lsb)>>

\* extract_bits with | in place of &
extract_bits_or(n, n_bits, offset_from_lsb) ==
    LET bitmask == PyLshift(PyDec(PyPow2(n_bits)), offset_from_lsb)
    IN  IF bitmask[1] = "raise" THEN <<"raise", "ValueError">>
        ELSE <<"ok", PyRshift(PyOr(n, bitmask[2]), offset_from_lsb)>>

extract_bits(n, n_bits, offset_from_lsb) ==
    LET bitmask == PyLshift(PyDec(PyPow2(n_bits)), offset_from_lsb)
    IN  IF bitmask[1] = "raise" THEN <<"raise", "ValueError">>
        ELSE <<"ok", PyRshift(PyAnd(n, bitmask[2]), offset_from_lsb)>>

(***************************************************************************)
(* chunks/decode.py: the constants of ChunksDecoder and of its subclasses. *)
(* A decoder class is named by the string dec, "128" for Chunks128Decoder  *)
(* and "129" for Chunks129Decoder.                                         *)
(***************************************************************************)
Decoders == {"128", "129"}

CHUNK_WIDTH == 16
CHUNK_HEIGHT == 16
CHUNK_DEPTH == 128

\* MAGIC; the 64-bit values are kept as their hexadecimal spelling
MAGIC(dec) == IF dec = "128" THEN "0xFFFFFFFFDEADBEEF" ELSE "0xFFFFFFFEDEADBEEF"

INVALID_INDEX_VALUE(dec) == IF dec = "128" THEN 0 ELSE -1

FILE_NAME(dec) == IF dec = "128" THEN "Chunks.dat" ELSE "Chunks32.dat"

\* Struct('<QII').size
chunk_header_struct_size == 8 + 4 + 4

\* Struct('<BB').size, Struct('<I').size
block_struct_size(dec) == IF dec = "128" THEN 1 + 1 ELSE 4

\* Struct('<BB2x').size
surface_point_struct_size == 1 + 1 + 2

\* Struct('<8xi').size
direntry_struct_size == 8 + 4

blocks_size(dec) ==
    CHUNK_WIDTH * CHUNK_HEIGHT * CHUNK_DEPTH * block_struct_size(dec)

surface_size == CHUNK_WIDTH * CHUNK_HEIGHT * surface_point_struct_size

directory_size == direntry_struct_size * (64 * 1024 + 1)

chunk_size(dec) == chunk_header_struct_size + blocks_size(dec) + surface_size

(***************************************************************************)
(* offset_from_index.  The result is a Python integer, which may lie       *)
(* outside the range of array('i'): <<"int", v>> when it is within         *)
(* INT_MIN..INT_MAX, <<"huge">> otherwise.                                 *)
(***************************************************************************)
INT_MAX == 2147483647
INT_MIN == -INT_MAX - 1

\* c + a*b for c >= 0 and b > 0, without leaving INT_MIN..INT_MAX on the way
PyMulAdd(c, a, b) ==
    LET fitsHigh == a <= (INT_MAX - c) \div b
        fitsLow == a >= -((INT_MAX \div b) + (((INT_MAX % b) + 1 + c)) \div b)
        n == c \div b + 1
    IN  IF ~(fitsHigh /\ fitsLow) THEN <<"huge">>
        ELSE IF a >= 0 THEN <<"int", c + a * b>>
        ELSE <<"int", ((a + n) * b + c) - n * b>>

\* Chunks129Decoder.offset_from_index with the directory size left out
offset_from_index_nodir(dec, index) ==
    IF dec = "128" THEN <<"int", index>>
    ELSE PyMulAdd(0, index, chunk_size(dec))

offset_from_index(dec, index) ==
    IF dec = "128" THEN <<"int", index>>
    ELSE PyMulAdd(directory_size, index, chunk_size(dec))

(***************************************************************************)
(* Struct.unpack of one record.  A record is the sequence of its bytes.    *)
(***************************************************************************)
\* the 8 bits of a byte, least significant first
ByteBits(b) == [i \in 1..8 |-> (b \div 2^(i - 1)) % 2]

\* '<I': four bytes, little-endian, to an unsigned integer (as bits)
unpack_I(bytes) ==
    Trim(ByteBits(bytes[1]) \o ByteBits(bytes[2])
         \o ByteBits(bytes[3]) \o ByteBits(bytes[4]))

\* '<8xi' after its eight pad bytes: four bytes, little-endian, to a signed
\* (two's complement) integer
unpack_i(bytes) ==
    LET bits == ByteBits(bytes[1]) \o ByteBits(bytes[2])
                \o ByteBits(bytes[3]) \o ByteBits(bytes[4])
        low == BitsToNat(SubSeq(bits, 1, 31))
    IN  IF bits[32] = 1 THEN (low - INT_MAX) - 1 ELSE low

\* '<BB' and '<BB2x': the first two bytes, each an unsigned integer
unpack_BB(bytes) == <<bytes[1], bytes[2]>>

\* the field of n_bits bits at offset_from_lsb of n, as a plain integer
Field(n, n_bits, offset_from_lsb) ==
    BitsToNat(extract_bits(n, n_bits, offset_from_lsb)[2])

(***************************************************************************)
(* parse_block and parse_surface_point.                                    *)
(***************************************************************************)
\* ChunksDecoder.parse_block, line 186: the x, y and z handed to Block(...)
block_x(i, chunk_x) == (i \div CHUNK_HEIGHT) \div CHUNK_DEPTH + chunk_x * CHUNK_WIDTH

\* block_y with the position of the chunk left out
block_y_nochunk(i, chunk_y) == (i \div CHUNK_DEPTH) % CHUNK_WIDTH

\* block_y with y varying fastest
block_y_fastest(i, chunk_y) == (i % CHUNK_WIDTH) + chunk_y * CHUNK_HEIGHT

block_y(i, chunk_y) == ((i \div CHUNK_DEPTH) % CHUNK_WIDTH) + chunk_y * CHUNK_HEIGHT

\* block_z counted from the block above
block_z_next(i) == (i + 1) % CHUNK_DEPTH

block_z(i) == i % CHUNK_DEPTH

\* ChunksDecoder.parse_surface_point, line 205: the x and y handed to
\* SurfacePoint(...)
surface_x(i, chunk_x) == i \div CHUNK_WIDTH + chunk_x * CHUNK_WIDTH

\* surface_y with the position of the chunk left out
surface_y_nochunk(i, chunk_y) == i % CHUNK_WIDTH

surface_y(i, chunk_y) == (i % CHUNK_WIDTH) + chunk_y * CHUNK_HEIGHT

\* ChunksDecoder.parse_block with x and y derived the wrong way round
base_parse_block_swapped(i, chunk_x, chunk_y, data) ==
    [x |-> block_y(i, chunk_x), y |-> block_x(i, chunk_y), z |-> block_z(i),
     type |-> data[1], light |-> data[2], state |-> data[3]]

\* ChunksDecoder.parse_block
base_parse_block(i, chunk_x, chunk_y, data) ==
    [x |-> block_x(i, chunk_x), y |-> block_y(i, chunk_y), z |-> block_z(i),
     type |-> data[1], light |-> data[2], state |-> data[3]]

\* ChunksDecoder.parse_surface_point with x and y derived the wrong way round
base_parse_surface_point_swapped(i, chunk_x, chunk_y, data) ==
    [x |-> surface_y(i, chunk_x), y |-> surface_x(i, chunk_y),
     elevation |-> data[1], temperature |-> data[2], humidity |-> data[3]]

\* ChunksDecoder.parse_surface_point
base_parse_surface_point(i, chunk_x, chunk_y, data) ==
    [x |-> surface_x(i, chunk_x), y |-> surface_y(i, chunk_y),
     elevation |-> data[1], temperature |-> data[2], humidity |-> data[3]]

\* Chunks128Decoder.parse_block with light and state taken from the wrong halves
Chunks128_parse_block_swapped(i, chunk_x, chunk_y, data) ==
    LET block_type == data[1]
        block_data == NatToBits(data[2])
    IN  base_parse_block(i, chunk_x, chunk_y,
            <<block_type, Field(block_data, 4, 4), Field(block_data, 4, 0)>>)

\* Chunks128Decoder.parse_block; data is the unpacked '<BB' record
Chunks128_parse_block(i, chunk_x, chunk_y, data) ==
    LET block_type == data[1]
        block_data == NatToBits(data[2])
    IN  base_parse_block(i, chunk_x, chunk_y,
            <<block_type, Field(block_data, 4, 0), Field(block_data, 4, 4)>>)

\* Chunks129Decoder.parse_block with the state field read two bits too low
Chunks129_parse_block_overlap(i, chunk_x, chunk_y, data) ==
    LET blk == data[1]
    IN  base_parse_block(i, chunk_x, chunk_y,
            <<Field(blk, 10, 0), Field(blk, 4, 10), Field(blk, 18, 12)>>)

\* Chunks129Decoder.parse_block; data is the unpacked '<I' record
Chunks129_parse_block(i, chunk_x, chunk_y, data) ==
    LET blk == data[1]
    IN  base_parse_block(i, chunk_x, chunk_y,
            <<Field(blk, 10, 0), Field(blk, 4, 10), Field(blk, 18, 14)>>)

\* Chunks128Decoder.parse_surface_point and Chunks129Decoder.parse_surface_point
\* (the two methods are the same); data is the unpacked '<BB2x' record
parse_surface_point(dec, i, chunk_x, chunk_y, data) ==
    LET elevation == data[1]
        climate == NatToBits(data[2])
    IN  base_parse_surface_point(i, chunk_x, chunk_y,
            <<elevation, Field(climate, 4, 0), Field(climate, 4, 4)>>)

\* the record of block_struct unpacked and handed to the decoder's parse_block
parse_block(dec, i, chunk_x, chunk_y, bytes) ==
    IF dec = "128"
    THEN Chunks128_parse_block(i, chunk_x, chunk_y, unpack_BB(bytes))
    ELSE Chunks129_parse_block(i, chunk_x, chunk_y, <<unpack_I(bytes)>>)

(***************************************************************************)
(* The chunks file.  file.dir holds the integers of the leading entries of *)
(* the directory (every further entry of the 64*1024 + 1 holds the         *)
(* decoder's INVALID_INDEX_VALUE), file.chunks maps the byte offset of     *)
(* each stored chunk to [magic, x, y, blocks, surface], where blocks and   *)
(* surface map the indexes of the records that are not all zero bytes to   *)
(* the bytes of the record.  An entry of file.dir is the integer that       *)
(* unpack_i gives for the four bytes of the entry.  file.size is the       *)
(* number of bytes the file                                                *)
(* holds: a file cut short holds the leading file.size bytes of this       *)
(* content and nothing else.                                               *)
(***************************************************************************)
ZeroBytes(n) == [j \in 1..n |-> 0]

BlockBytes(dec, chunk, i) ==
    IF i \in DOMAIN chunk.blocks THEN chunk.blocks[i]
    ELSE ZeroBytes(block_struct_size(dec))

SurfaceBytes(chunk, i) ==
    IF i \in DOMAIN chunk.surface THEN chunk.surface[i]
    ELSE ZeroBytes(surface_point_struct_size)

RECURSIVE MaxOf(_)
MaxOf(S) == LET x == CHOOSE y \in S : TRUE
            IN  IF S = {x} THEN x
                ELSE LET m == MaxOf(S \ {x}) IN IF x > m THEN x ELSE m

\* the size of the complete file: the directory, then the chunks up to the
\* last one
FileSize(dec, f) ==
    IF DOMAIN f.chunks = {} THEN directory_size
    ELSE MaxOf(DOMAIN f.chunks) + chunk_size(dec)

\* len(chkf.read(n)) with the file object at position p >= 0: read returns
\* the bytes that are left when fewer than n are left
Avail(f, p, n) ==
    IF p >= f.size THEN 0
    ELSE IF f.size - p < n THEN f.size - p ELSE n

(***************************************************************************)
(* ChunksDecoder.read_directory                                            *)
(***************************************************************************)
\* array('i', offsets) with an offset that is no C int stored as INT_MAX
array_i_clamped(values) ==
    <<"ok", [j \in DOMAIN values |->
                IF values[j][1] = "huge" THEN INT_MAX ELSE values[j][2]]>>

\* array('i', offsets): OverflowError unless every offset is a C int
array_i(values) ==
    IF \E j \in DOMAIN values : values[j][1] = "huge"
    THEN <<"raise", "OverflowError">>
    ELSE <<"ok", [j \in DOMAIN values |-> values[j][2]]>>

\* the generator expression of read_directory, with 0 as the unused marker
\* of both formats
RECURSIVE directory_offsets_zero(_, _)
directory_offsets_zero(dec, entries) ==
    IF entries = <<>> THEN <<>>
    ELSE (IF Head(entries) /= 0
          THEN <<offset_from_index(dec, Head(entries))>> ELSE <<>>)
         \o directory_offsets_zero(dec, Tail(entries))

\* the generator expression of read_directory taken from the last entry to
\* the first
RECURSIVE directory_offsets_reversed(_, _)
directory_offsets_reversed(dec, entries) ==
    IF entries = <<>> THEN <<>>
    ELSE directory_offsets_reversed(dec, Tail(entries))
         \o (IF Head(entries) /= INVALID_INDEX_VALUE(dec)
             THEN <<offset_from_index(dec, Head(entries))>> ELSE <<>>)

\* the generator expression of read_directory: offset_from_index(index) for
\* each unpacked index that is not INVALID_INDEX_VALUE
RECURSIVE directory_offsets(_, _)
directory_offsets(dec, entries) ==
    IF entries = <<>> THEN <<>>
    ELSE (IF Head(entries) /= INVALID_INDEX_VALUE(dec)
          THEN <<offset_from_index(dec, Head(entries))>> ELSE <<>>)
         \o directory_offsets(dec, Tail(entries))

\* the indexes that _direntry_struct.iter_unpack gives for the data read:
\* struct.error unless the data is a whole number of entries, else one index
\* per entry of the data, however few
iter_unpack_directory(f) ==
    LET got == Avail(f, 0, directory_size)
        n == got \div direntry_struct_size
    IN  IF got % direntry_struct_size /= 0 THEN <<"raise", "struct.error">>
        ELSE <<"ok", IF n < Len(f.dir) THEN SubSeq(f.dir, 1, n) ELSE f.dir>>

read_directory(dec, f) ==
    LET entries == iter_unpack_directory(f)
    IN  IF entries[1] = "raise" THEN entries
        ELSE array_i(directory_offsets(dec, entries[2]))

(***************************************************************************)
(* ChunksDecoder._read_section: the step for one offset of the directory.  *)
(***************************************************************************)
\* the header unpacked from the 16 bytes at offset, <<"raise", e>> if the
\* seek fails (negative offset) or fewer than 16 bytes are left (struct.error).
\* Bytes of the file that are not the header of a stored chunk (directory
\* entries, block data) spell neither magic.
read_header(dec, f, offset) ==
    IF offset < 0 THEN <<"raise", "seek">>
    ELSE IF Avail(f, offset, chunk_header_struct_size) < chunk_header_struct_size
    THEN <<"raise", "struct.error">>
    ELSE IF offset \in DOMAIN f.chunks
    THEN <<"ok", [magic |-> f.chunks[offset].magic,
                  chunk_x |-> f.chunks[offset].x,
                  chunk_y |-> f.chunks[offset].y]>>
    ELSE <<"ok", [magic |-> "other", chunk_x |-> 0, chunk_y |-> 0]>>

\* _assert_magic without its comparison
assert_magic_unchecked(dec, actual_magic) == <<"ok">>

\* _assert_magic
assert_magic(dec, actual_magic) ==
    IF actual_magic /= MAGIC(dec) THEN <<"raise", "ValueError">> ELSE <<"ok">>

skip_size(dec, sec) == IF sec = "blocks" THEN 0 ELSE blocks_size(dec)
\* read_size with surface_size for both sections
read_size_surface(dec, sec) == surface_size

read_size(dec, sec) == IF sec = "blocks" THEN blocks_size(dec) ELSE surface_size
item_struct_size(dec, sec) ==
    IF sec = "blocks" THEN block_struct_size(dec) ELSE surface_point_struct_size

\* the position of the section of the chunk at offset, after the header and
\* the seek over skip_size bytes
section_start(dec, sec, offset) ==
    offset + chunk_header_struct_size + skip_size(dec, sec)

\* the number of items that item_struct.iter_unpack gives for the data read
\* at the section: struct.error unless the data is a whole number of items
iter_unpack_section(dec, sec, f, offset) ==
    LET got == Avail(f, section_start(dec, sec, offset), read_size(dec, sec))
    IN  IF got % item_struct_size(dec, sec) /= 0 THEN <<"raise", "struct.error">>
        ELSE <<"ok", got \div item_struct_size(dec, sec)>>

\* The records yielded for one chunk are kept as a batch,
\* [offset, chunk_x, chunk_y, n]: record i, for i in 0..n-1, is
\* parse_function(i, chunk_x, chunk_y, data) for the i-th item unpacked from
\* the section read at offset.
Record(dec, sec, f, b, i) ==
    IF sec = "blocks"
    THEN parse_block(dec, i, b.chunk_x, b.chunk_y,
                     BlockBytes(dec, f.chunks[b.offset], i))
    ELSE parse_surface_point(dec, i, b.chunk_x, b.chunk_y,
                             unpack_BB(SurfaceBytes(f.chunks[b.offset], i)))

(***************************************************************************)
(* SpecFn: one call of a pure function on arguments drawn from bounded     *)
(* sets.                                                                   *)
(***************************************************************************)
Pending == <<"pending">>

\* the example of the docstring of extract_bits, 0b1101011001111010
DocExample == 54906

ExtractValues == (0..MaxValue) \cup {255, DocExample}

ExtractCalls ==
    { <<"extract_bits", NatToBits(v), w, o>> :
        v \in ExtractValues, w \in (-MaxWidth)..MaxWidth, o \in (-1)..MaxOffset }

\* directory entries tried on offset_from_index
IndexSamples == ((-2)..MaxIndex) \cup {1000, 2000, 16249, 16250, 65535}

OffsetCalls ==
    { <<"offset_from_index", dec, index>> :
        dec \in Decoders, index \in IndexSamples }

\* the four bytes of directory entries: 0, 1, 1000, 16249, 16250, 65535,
\* 2^31 - 1, 2^31, 2^31 + 2^30 + 1024 and 2^32 - 1
EntryBytes ==
    { <<0, 0, 0, 0>>, <<1, 0, 0, 0>>, <<232, 3, 0, 0>>, <<121, 63, 0, 0>>,
      <<122, 63, 0, 0>>, <<255, 255, 0, 0>>, <<255, 255, 255, 127>>,
      <<0, 0, 0, 128>>, <<0, 4, 0, 192>>, <<255, 255, 255, 255>> }

\* read_directory on a directory whose leading entries hold these bytes
DirectoryCalls ==
    { <<"read_directory", dec, entries>> :
        dec \in Decoders,
        entries \in { <<e>> : e \in EntryBytes } \cup (EntryBytes \X EntryBytes) }

(***************************************************************************)
(* scchunks.handle_args.  A Python value that may be None is <<"None">> or *)
(* <<"str", s>>.  The command line is given by the value of -V (None if    *)
(* the option is absent) and the positional argument.                      *)
(***************************************************************************)
NoneValue == <<"None">>

\* tuple(map('1.{}'.format, range(4, 29))) and ('1.29',)
SUPPORTED_VERSIONS(dec) ==
    IF dec = "128"
    THEN {"1.4", "1.5", "1.6", "1.7", "1.8", "1.9", "1.10", "1.11", "1.12",
          "1.13", "1.14", "1.15", "1.16", "1.17", "1.18", "1.19", "1.20",
          "1.21", "1.22", "1.23", "1.24", "1.25", "1.26", "1.27", "1.28"}
    ELSE {"1.29"}

\* sum((d.SUPPORTED_VERSIONS for d in decoders), ('auto',)): the choices of
\* -V/--file-version
version_choices_noauto(decoders) ==
    UNION { SUPPORTED_VERSIONS(decoders[j]) : j \in DOMAIN decoders }

version_choices(decoders) ==
    {"auto"} \cup UNION { SUPPORTED_VERSIONS(decoders[j]) : j \in DOMAIN decoders }

\* handle_args(decoders, custom_args): the Namespace, or SystemExit when
\* argparse rejects an argument
handle_args(decoders, V, positional) ==
    IF V /= NoneValue /\ V[2] \notin version_choices(decoders)
    THEN <<"raise", "SystemExit">>
    ELSE IF positional \notin {"blocks", "surface"}
    THEN <<"raise", "SystemExit">>
    ELSE <<"ok", [file_version |-> IF V = NoneValue THEN "auto" ELSE V[2],
                  chunks_file |-> NoneValue,
                  plane |-> NoneValue,
                  extract_data |-> positional]>>

\* the lists of decoders and the command lines that handle_args is tried on
DecoderLists ==
    { <<>>, <<"128">>, <<"129">>, <<"128", "129">>, <<"129", "128">>, <<"128", "128">> }

VersionSamples ==
    { "auto", "Auto", "", "1.0", "1.3", "1.4", "1.04", "1.17", "1.28", "1.29", "1.30" }

HandleArgsCalls ==
    { <<"handle_args", decoders, V, positional>> :
        decoders \in DecoderLists,
        V \in {NoneValue} \cup { <<"str", v>> : v \in VersionSamples },
        positional \in {"blocks", "surface", "chunks"} }

FnCalls == ExtractCalls \cup OffsetCalls \cup DirectoryCalls \cup HandleArgsCalls

\* struct.pack('<I', n): the four little-endian bytes of n < 2^32 (given as bits)
pack_I(bits) ==
    LET padded == bits \o Zeros(32 - Len(bits))
    IN  [j \in 1..4 |-> BitsToNat(SubSeq(padded, 8 * j - 7, 8 * j))]

\* (state << 14) | (light << 10) | type
PackWord(type, light, state) ==
    PyOr(PyOr(PyLshift(<<"int", NatToBits(state)>>, 14)[2],
              PyLshift(<<"int", NatToBits(light)>>, 10)[2]),
         NatToBits(type))

TypeSamples == {0, 1, 9, 511, 512, 1023}
LightSamples == 0..15
StateSamples == {0, 1, 12345, 131072, 262143}
ByteSamples == {0, 1, 7, 53, 128, 255}
AllBytes == 0..255
BlockIndexes == 0..(CHUNK_WIDTH * CHUNK_HEIGHT * CHUNK_DEPTH - 1)
SurfaceIndexes == 0..(CHUNK_WIDTH * CHUNK_HEIGHT - 1)
IndexCorners == {0, 1, 127, 128, 129, 2047, 2048, 2049, 16383, 32767}
ChunkCoords == 0..MaxChunkCoord

\* the record of every sampled (type, light, state), with its fields
PackedSamples ==
    { <<pack_I(PackWord(f[1], f[2], f[3])), f>> :
        f \in TypeSamples \X LightSamples \X StateSamples }

ParseBlockCalls(dec) ==
    \* the corner indexes of every chunk
    { <<"parse_block", dec, c[1], c[2], c[3], <<7, 53, 0, 0>>>> :
        c \in IndexCorners \X ChunkCoords \X ChunkCoords }
    \cup
    \* every index of the chunk at (2, 3)
    { <<"parse_block", dec, i, 2, 3, <<7, 53, 0, 0>>>> : i \in BlockIndexes }
    \cup
    (IF dec = "128"
     THEN \* format A records
          { <<"parse_block", dec, 0, 0, 0, <<b0, b1>>>> :
              b0 \in ByteSamples, b1 \in AllBytes }
     ELSE \* format B records packed from their fields, and given by their bytes
          { <<"parse_block", dec, 0, 0, 0, p[1]>> : p \in PackedSamples }
          \cup
          { <<"parse_block", dec, 0, 0, 0, bytes>> :
              bytes \in ByteSamples \X ByteSamples \X ByteSamples \X ByteSamples })

ParseSurfaceCalls(dec) ==
    { <<"parse_surface_point", dec, c[1], c[2], c[3], <<50, 53, 0, 0>>>> :
        c \in SurfaceIndexes \X ChunkCoords \X ChunkCoords }
    \cup
    { <<"parse_surface_point", dec, 0, 0, 0, <<e, b, 0, 0>>>> :
        e \in ByteSamples, b \in AllBytes }

IdleMain ==
    /\ args = <<>>
    /\ mpc = "idle"
    /\ opened = FALSE
    /\ offsets = <<>>
    /\ rows = <<>>
    /\ status = <<"running">>
    /\ suspended = <<>>

IdleReader ==
    /\ decoder = "128"
    /\ file = [dir |-> <<>>, chunks |-> <<>>, size |-> 0]
    /\ pos = 0
    /\ pc = "idle"
    /\ section = "blocks"
    /\ directory = <<>>
    /\ k = 0
    /\ out = <<>>
    /\ err = ""
    /\ IdleMain

ExtractBits ==
    /\ call[1] = "extract_bits"
    /\ ret = Pending
    /\ ret' = extract_bits(call[2], call[3], call[4])
    /\ UNCHANGED <<call, rdvars, mnvars, suspended>>

OffsetFromIndex ==
    /\ call[1] = "offset_from_index"
    /\ ret = Pending
    /\ ret' = <<"ok", offset_from_index(call[2], call[3])>>
    /\ UNCHANGED <<call, rdvars, mnvars, suspended>>

ParseBlock ==
    /\ call[1] = "parse_block"
    /\ ret = Pending
    /\ ret' = <<"ok", parse_block(call[2], call[3], call[4], call[5], call[6])>>
    /\ UNCHANGED <<call, rdvars, mnvars, suspended>>

ParseSurfacePoint ==
    /\ call[1] = "parse_surface_point"
    /\ ret = Pending
    /\ ret' = <<"ok", parse_surface_point(call[2], call[3], call[4], call[5],
                                          unpack_BB(call[6]))>>
    /\ UNCHANGED <<call, rdvars, mnvars, suspended>>

\* read_directory on the bytes of the leading directory entries
ReadDirectoryEntries ==
    /\ call[1] = "read_directory"
    /\ ret = Pending
    /\ ret' = array_i(directory_offsets(call[2],
                  [j \in DOMAIN call[3] |-> unpack_i(call[3][j])]))
    /\ UNCHANGED <<call, rdvars, mnvars, suspended>>

HandleArgs ==
    /\ call[1] = "handle_args"
    /\ ret = Pending
    /\ ret' = handle_args(call[2], call[3], call[4])
    /\ UNCHANGED <<call, rdvars, mnvars, suspended>>

InitFn ==
    /\ call \in FnCalls
    /\ ret = Pending
    /\ IdleReader

NextFn ==
    \/ ExtractBits
    \/ OffsetFromIndex
    \/ ReadDirectoryEntries
    \/ HandleArgs

SpecFn == InitFn /\ [][NextFn]_vars

InitParse ==
    /\ \E dec \in Decoders : call \in ParseBlockCalls(dec) \cup ParseSurfaceCalls(dec)
    /\ ret = Pending
    /\ IdleReader

NextParse ==
    \/ ParseBlock
    \/ ParseSurfacePoint

SpecParse == InitParse /\ [][NextParse]_vars

(***************************************************************************)
(* Spec: read_blocks or read_surface run to its end over a chunks file.    *)
(***************************************************************************)
\* the chunks stored in the file, back to back after the directory
ChunkSlots == {0, 1}

ChunkOffset(dec, j) == directory_size + j * chunk_size(dec)

\* the directory entry that refers to the chunk stored in slot j
EntryOf(dec, j) == IF dec = "128" THEN ChunkOffset(dec, j) ELSE j

\* directory entries of the modelled files: unused, the stored chunks, and
\* entries that refer to no stored chunk
EntryValues(dec) ==
    {INVALID_INDEX_VALUE(dec)} \cup { EntryOf(dec, j) : j \in ChunkSlots }
    \cup (IF dec = "128" THEN {-1, 1000} ELSE {1000, 16250})

Directories(dec) ==
    [1..NSlots -> EntryValues(dec)]
    \cup {<<INVALID_INDEX_VALUE(dec), 1000, INVALID_INDEX_VALUE(dec), 2000>>}

GridSamples == {<<0, 0>>, <<0, 1>>, <<1, 0>>}

\* block 9 at (5, 5, 10) of the chunk, elevation 50 at (5, 5)
FixtureBlocks(dec) ==
    (5 * 2048 + 5 * 128 + 10) :> (IF dec = "128" THEN <<9, 0>> ELSE <<9, 0, 0, 0>>)
FixtureSurface == (5 * 16 + 5) :> <<50, 0, 0, 0>>

\* the chunks of a file: any grid position for each, at most one wrong magic
ChunkLayouts(dec) ==
    { [ j \in { ChunkOffset(dec, s) : s \in ChunkSlots } |->
          [magic |-> IF j = bad THEN "other" ELSE MAGIC(dec),
           x |-> g[1 + (j - directory_size) \div chunk_size(dec)][1],
           y |-> g[1 + (j - directory_size) \div chunk_size(dec)][2],
           blocks |-> FixtureBlocks(dec),
           surface |-> FixtureSurface] ] :
        g \in [1..Cardinality(ChunkSlots) -> GridSamples],
        bad \in {-1} \cup { ChunkOffset(dec, s) : s \in ChunkSlots } }

\* the complete files
CompleteFiles(dec) ==
    { [dir |-> d, chunks |-> c, size |-> FileSize(dec, [chunks |-> c])] :
        d \in Directories(dec), c \in ChunkLayouts(dec) }

\* sizes of files cut short: within the directory (after no entry, after one
\* entry, within the third, before the last), and within the last chunk
\* (within its header, after its header, within its blocks after a whole
\* block and within a block, within its surface after a whole point and
\* within a point)
CutSizes(dec) ==
    {0, direntry_struct_size, 2 * direntry_struct_size + 5,
     directory_size - direntry_struct_size}
    \cup { ChunkOffset(dec, 1) + c :
             c \in {8, 16, 16 + 200, 16 + 201,
                    16 + blocks_size(dec) + 40, 16 + blocks_size(dec) + 42} }

\* the files cut short: two chunks, at (0, 0) and (0, 1), listed in either
\* order
CutFiles(dec) ==
    { [dir |-> d,
       chunks |-> [ j \in { ChunkOffset(dec, s) : s \in ChunkSlots } |->
                      [magic |-> MAGIC(dec), x |-> 0,
                       y |-> (j - directory_size) \div chunk_size(dec),
                       blocks |-> FixtureBlocks(dec),
                       surface |-> FixtureSurface] ],
       size |-> n] :
        d \in { <<EntryOf(dec, 0), EntryOf(dec, 1)>>,
                <<EntryOf(dec, 1), EntryOf(dec, 0)>> },
        n \in CutSizes(dec) }

Files(dec) == CompleteFiles(dec) \cup CutFiles(dec)

NoCall == <<"none">>

Init ==
    /\ decoder \in Decoders
    /\ section \in {"blocks", "surface"}
    /\ file \in Files(decoder)
    /\ pos = 0
    /\ pc = "start"
    /\ directory = <<>>
    /\ k = 0
    /\ out = <<>>
    /\ err = ""
    /\ call = NoCall
    /\ ret = Pending
    /\ IdleMain

\* _read_section, lines 129-130: the directory is read at the first step
read_section_directory ==
    /\ pc = "start"
    /\ LET r == read_directory(decoder, file)
       IN  /\ pos' = Avail(file, 0, directory_size)
           /\ IF r[1] = "ok"
              THEN /\ directory' = r[2]
                   /\ pc' = "loop"
                   /\ err' = ""
              ELSE /\ directory' = <<>>
                   /\ pc' = "error"
                   /\ err' = r[2]

ReadDirectory ==
    /\ read_section_directory
    /\ UNCHANGED <<decoder, file, section, k, out, fnvars, suspended, mnvars>>

\* the seek taken from the current position (whence SEEK_CUR)
seek_from_current(p, offset) == p + offset

\* chunksf.seek(offset) with the file object at position p: the new position
\* is the offset, wherever the file object stood
seek(p, offset) == offset

\* _read_section, lines 131-142: the next offset of the directory.  The
\* header is read at the position that the seek of line 132 gives, the
\* section after the header and the seek over skip_size bytes; all this is
\* done before the first record of the chunk is yielded.
read_section_chunk ==
    /\ pc = "loop"
    /\ k < Len(directory)
    /\ LET offset == seek(pos, directory[k + 1])
           hdr == read_header(decoder, file, offset)
       IN  IF hdr[1] = "raise"
           THEN /\ pc' = "error"
                /\ err' = hdr[2]
                /\ pos' = IF hdr[2] = "seek" THEN pos
                          ELSE offset + Avail(file, offset, chunk_header_struct_size)
                /\ UNCHANGED <<k, out>>
           ELSE IF assert_magic(decoder, hdr[2].magic)[1] = "raise"
           THEN /\ pc' = "error"
                /\ err' = assert_magic(decoder, hdr[2].magic)[2]
                /\ pos' = offset + chunk_header_struct_size
                /\ UNCHANGED <<k, out>>
           ELSE LET start == section_start(decoder, section, offset)
                    items == iter_unpack_section(decoder, section, file, offset)
                IN  /\ pos' = start + Avail(file, start, read_size(decoder, section))
                    /\ IF items[1] = "raise"
                       THEN /\ pc' = "error"
                            /\ err' = items[2]
                            /\ UNCHANGED <<k, out>>
                       ELSE /\ out' = Append(out,
                                  [offset |-> offset,
                                   chunk_x |-> hdr[2].chunk_x,
                                   chunk_y |-> hdr[2].chunk_y,
                                   n |-> items[2]])
                            /\ k' = k + 1
                            /\ UNCHANGED <<pc, err>>

ReadChunk ==
    /\ read_section_chunk
    /\ UNCHANGED <<decoder, file, section, directory, fnvars, suspended,
                   mnvars>>

\* _read_section: the directory is exhausted, the generator returns
Finish ==
    /\ pc = "loop"
    /\ k = Len(directory)
    /\ pc' = "done"
    /\ UNCHANGED <<decoder, file, pos, section, directory, k, out, err, fnvars,
                   suspended, mnvars>>

Next ==
    \/ ReadDirectory
    \/ ReadChunk
    \/ Finish

Spec == Init /\ [][Next]_vars

(***************************************************************************)
(* scchunks.py: the script.  A Python value that may be None is            *)
(* <<"None">> or <<"str", s>>; the string of the plane argument is the     *)
(* sequence of its characters, the path of the chunks file the sequence of *)
(* its components (the parts between the slashes).                         *)
(***************************************************************************)
\* Block._fields and SurfacePoint._fields
fields(extract_data) ==
    IF extract_data = "blocks"
    THEN <<"x", "y", "z", "type", "light", "state">>
    ELSE <<"x", "y", "elevation", "temperature", "humidity">>

\* os.path.basename: what follows the last slash
basename(path) == path[Len(path)]

DigitChars == <<"0", "1", "2", "3", "4", "5", "6", "7", "8", "9">>

DigitValue(c) == (CHOOSE d \in 1..10 : DigitChars[d] = c) - 1

RECURSIVE DigitsValue(_, _)
DigitsValue(chars, acc) ==
    IF chars = <<>> THEN acc
    ELSE DigitsValue(Tail(chars), 10 * acc + DigitValue(Head(chars)))

\* int(s) for a string of an optional sign and decimal digits; ValueError for
\* the other strings of the model
PyInt(chars) ==
    LET signed == chars /= <<>> /\ chars[1] \in {"+", "-"}
        digits == IF signed THEN Tail(chars) ELSE chars
    IN  IF digits = <<>> \/ \E j \in DOMAIN digits : digits[j] \notin { DigitChars[d] : d \in 1..10 }
        THEN <<"raise", "ValueError">>
        ELSE <<"ok", IF signed /\ chars[1] = "-"
                     THEN -DigitsValue(digits, 0) ELSE DigitsValue(digits, 0)>>

\* any(map(args.plane.startswith, '+-'))
starts_with_sign(chars) == chars /= <<>> /\ chars[1] \in {"+", "-"}

\* main, lines 47-70: the decoder class chosen, or the status returned
select_decoder_first(a) ==
    IF a.file_version = "auto"
    THEN IF a.chunks_file[1] = "None" THEN <<"return", 2>>
         ELSE <<"ok", "128">>
    ELSE IF a.file_version \in SUPPORTED_VERSIONS("128") THEN <<"ok", "128">>
    ELSE IF a.file_version \in SUPPORTED_VERSIONS("129") THEN <<"ok", "129">>
    ELSE <<"return", 1>>

select_decoder(a) ==
    IF a.file_version = "auto"
    THEN IF a.chunks_file[1] = "None" THEN <<"return", 2>>
         ELSE LET chunks_fname == basename(a.chunks_file[2])
              IN  IF chunks_fname = FILE_NAME("128") THEN <<"ok", "128">>
                  ELSE IF chunks_fname = FILE_NAME("129") THEN <<"ok", "129">>
                  ELSE <<"return", 2>>
    ELSE IF a.file_version \in SUPPORTED_VERSIONS("128") THEN <<"ok", "128">>
    ELSE IF a.file_version \in SUPPORTED_VERSIONS("129") THEN <<"ok", "129">>
    ELSE <<"return", 1>>

\* `args.plane` alone, whatever is extracted
plane_filter_any(a) ==
    a.plane[1] = "str" /\ a.plane[2] /= <<>>

\* `args.plane and args.extract_data == 'blocks'`
plane_filter(a) ==
    a.plane[1] = "str" /\ a.plane[2] /= <<>> /\ a.extract_data = "blocks"

\* the numbers 0 .. n-1 in order: the indexes that enumerate gives the items
Indexes(n) == [j \in 1..n |-> j - 1]

\* the records of the indexes, in the order of the indexes
Records(dec, sec, f, b, indexes) ==
    [j \in 1..Len(indexes) |-> Record(dec, sec, f, b, indexes[j])]

\* filter(lambda b: b.z == z_coord, ...) on the records of a batch: the
\* indexes of the records kept (b.z of record i is block_z(i))
filter_absolute_above(b, z_coord) ==
    SelectSeq(Indexes(b.n), LAMBDA i : block_z(i) = z_coord + 1)

filter_absolute(b, z_coord) ==
    SelectSeq(Indexes(b.n), LAMBDA i : block_z(i) = z_coord)

\* the column (b.x, b.y) of record i of a batch
Column(b, i) == <<block_x(i, b.chunk_x), block_y(i, b.chunk_y)>>

\* the first index of the batch whose column is no key of the dict, b.n if
\* every column is a key
FirstKeyError(b, d) ==
    LET keys == DOMAIN d
    IN  IF { Column(b, i) : i \in 0..(b.n - 1) } \subseteq keys THEN b.n
        ELSE LET missing == { i \in 0..(b.n - 1) : Column(b, i) \notin keys }
             IN  CHOOSE i \in missing : \A m \in missing : i <= m

\* filter(lambda b: b.z == offsets[(b.x, b.y)], ...) on the first n records
\* of a batch: the indexes of the records kept
filter_relative_column(b, d, n) ==
    SelectSeq(Indexes(n), LAMBDA i : block_z(i) = d[<<0, 0>>])

filter_relative(b, d, n) ==
    SelectSeq(Indexes(n), LAMBDA i : block_z(i) = d[Column(b, i)])

\* the key with y before x
Key_transposed(b, i) == <<surface_y(i, b.chunk_y), surface_x(i, b.chunk_x)>>

\* the key (x, y) of surface point i of a batch

Key(b, i) == <<surface_x(i, b.chunk_x), surface_y(i, b.chunk_y)>>

\* the dict comprehension with elev in place of elev + rel_offset
dict_update_elev(d, dec, f, b, rel_offset) ==
    LET I == 0..(b.n - 1)
        last(key) == CHOOSE i \in I :
                        Key(b, i) = key /\ \A m \in I : Key(b, m) = key => m <= i
    IN  [ key \in { Key(b, i) : i \in I } |->
            Record(dec, "surface", f, b, last(key)).elevation ] @@ d

\* the dict comprehension of line 84 continued over the surface points of a
\* batch: each key gets elev + rel_offset of the last point that has it
dict_update(d, dec, f, b, rel_offset) ==
    LET I == 0..(b.n - 1)
        last(key) == CHOOSE i \in I :
                        Key(b, i) = key /\ \A m \in I : Key(b, m) = key => m <= i
    IN  [ key \in { Key(b, i) : i \in I } |->
            Record(dec, "surface", f, b, last(key)).elevation + rel_offset ] @@ d

(***************************************************************************)
(* SpecMain: one run of the script.  The steps of main are taken at the    *)
(* places where it reads the chunks file or writes the CSV file; the       *)
(* records that a generator yields for one chunk are consumed in the step  *)
(* that reads the chunk.                                                   *)
(***************************************************************************)
\* elevation 50 + 10*s at (5, 5) of the chunk of slot s, temperature 3 and
\* humidity 5 at (0, 1) of the chunk of slot 1
SlotSurface(s) ==
    IF s = 0 THEN FixtureSurface
    ELSE (5 * 16 + 5) :> <<50 + 10 * s, 0, 0, 0>> @@ 1 :> <<0, 83, 0, 0>>

\* the chunks of a file of n chunks, the chunk of slot s at grid (0, s), or
\* all at grid (0, 0) if `same', with a wrong magic in slot bad
MainChunks(fmt, n, bad, same) ==
    [ j \in { ChunkOffset(fmt, s) : s \in 0..(n - 1) } |->
        LET s == (j - directory_size) \div chunk_size(fmt)
        IN  [magic |-> IF s = bad THEN "other" ELSE MAGIC(fmt),
             x |-> 0,
             y |-> IF same THEN 0 ELSE s,
             blocks |-> FixtureBlocks(fmt),
             surface |-> SlotSurface(s)] ]

\* a complete file of these chunks and directory entries
MainFile(fmt, d, n, bad) ==
    [dir |-> d, chunks |-> MainChunks(fmt, n, bad, FALSE),
     size |-> directory_size + n * chunk_size(fmt)]

\* the chunks files of the runs: one chunk; two chunks listed in either
\* order, one of them twice, or none; a wrong magic in the second chunk; two
\* chunks that carry the same grid position; a file cut short within the
\* surface section of its last chunk, and one cut short before its directory
MainFiles(fmt) ==
    LET e0 == EntryOf(fmt, 0)
        e1 == EntryOf(fmt, 1)
    IN  { MainFile(fmt, <<e0>>, 1, -1) }
        \cup { MainFile(fmt, d, 2, -1) : d \in {<<e0, e1>>, <<e1, e0>>, <<e0, e0>>, <<>>} }
        \cup { MainFile(fmt, <<e0, e1>>, 2, 1) }
        \cup { [MainFile(fmt, <<e1, e0>>, 2, -1)
                   EXCEPT !.chunks = MainChunks(fmt, 2, -1, TRUE)] }
        \cup { [MainFile(fmt, <<e0, e1>>, 2, -1) EXCEPT !.size = n] :
                 n \in {0, ChunkOffset(fmt, 1) + 16 + blocks_size(fmt) + 40} }

\* the paths given to -f/--chunks-file; the one below `missing' names no file
PathSamples ==
    { <<"Chunks.dat">>, <<"saves", "Chunks32.dat">>, <<"saves", "chunks.dat">>,
      <<"Chunks.dat", "">>, <<"-">>, <<"missing", "Chunks.dat">> }

\* the strings given to -p/--plane
PlaneSamples ==
    { <<>>, <<"0">>, <<"1", "0">>, <<"1", "2", "8">>, <<"+", "0">>,
      <<"-", "4", "0">>, <<"+", "7", "8">>, <<"+", "2", "0", "0">>, <<"+">> }

\* the Namespace of handle_args for a chunks file named after its format
PlaneArgs(fmt, plane, extract_data) ==
    [file_version |-> "auto",
     chunks_file |-> <<"str", <<"saves", FILE_NAME(fmt)>>>>,
     plane |-> <<"str", plane>>,
     extract_data |-> extract_data]

\* the runs: every choice of version and chunks file on the extraction of
\* the surface of the file of one chunk; every plane on that file; two
\* planes on the other files.  The blocks are extracted through a plane: all
\* the 32768 blocks of a chunk are not written out.
MainRuns(fmt) ==
    LET one == MainFile(fmt, <<EntryOf(fmt, 0)>>, 1, -1)
    IN  { <<one, [file_version |-> v, chunks_file |-> f, plane |-> NoneValue,
                  extract_data |-> "surface"]>> :
            v \in {"auto", "1.4", "1.28", "1.29"},
            f \in {NoneValue} \cup { <<"str", path>> : path \in PathSamples } }
        \cup
        { <<one, PlaneArgs(fmt, pe[1], pe[2])>> :
            pe \in { x \in PlaneSamples \X {"blocks", "surface"} :
                       ~(x[1] = <<>> /\ x[2] = "blocks") } }
        \cup
        { <<f, PlaneArgs(fmt, p, "blocks")>> :
            f \in MainFiles(fmt),
            p \in { <<"1", "0">>, <<"+", "0">> } }
        \cup
        { <<f, PlaneArgs(fmt, <<"1", "0">>, "surface")>> : f \in MainFiles(fmt) }

InitMain ==
    /\ \E fmt \in Decoders : \E run \in MainRuns(fmt) :
          /\ file = run[1]
          /\ args = run[2]
    /\ decoder = "none"
    /\ section = "none"
    /\ pos = 0
    /\ pc = "start"
    /\ directory = <<>>
    /\ k = 0
    /\ out = <<>>
    /\ err = ""
    /\ call = NoCall
    /\ ret = Pending
    /\ mpc = "start"
    /\ opened = FALSE
    /\ offsets = <<>>
    /\ rows = <<>>
    /\ status = <<"running">>
    /\ suspended = <<>>

\* the run ends with an uncaught exception: the interpreter exits with 1
Uncaught(e) ==
    /\ err' = e
    /\ mpc' = "exit"
    /\ status' = <<"exit", 1>>

\* main, lines 46-70: the decoder is chosen, or main returns 2 or 1
MainSelectDecoder ==
    /\ mpc = "start"
    /\ LET r == select_decoder(args)
       IN  IF r[1] = "ok"
           THEN /\ decoder' = r[2]
                /\ mpc' = "open"
                /\ UNCHANGED status
           ELSE /\ mpc' = "exit"
                /\ status' = <<"exit", r[2]>>
                /\ UNCHANGED decoder
    /\ UNCHANGED <<file, pos, pc, section, directory, k, out, err, fnvars,
                   suspended,
                   args, opened, offsets, rows>>

\* main, lines 74-79: the chunks file is opened (standard input stands for
\* no path and for '-')
MainOpen ==
    /\ mpc = "open"
    /\ IF args.chunks_file[1] = "str" /\ args.chunks_file[2] /= <<"-">>
          /\ args.chunks_file[2][1] = "missing"
       THEN Uncaught("FileNotFoundError") /\ UNCHANGED opened
       ELSE /\ opened' = TRUE
            /\ mpc' = "plan"
            /\ UNCHANGED <<err, status>>
    /\ UNCHANGED <<decoder, file, pos, pc, section, directory, k, out, fnvars,
                   suspended,
                   args, offsets, rows>>

\* main, lines 80-94: the readers are set up.  For a plane relative to the
\* surface the directory is read here and read_surface is started on it.
MainPlan ==
    /\ mpc = "plan"
    /\ IF plane_filter(args)
       THEN LET n == PyInt(args.plane[2])
            IN  IF n[1] = "raise"
                THEN /\ Uncaught(n[2])
                     /\ UNCHANGED <<pos, pc, section, directory>>
                ELSE IF starts_with_sign(args.plane[2])
                THEN /\ read_section_directory
                     /\ section' = "surface"
                     /\ IF pc' = "error"
                        THEN mpc' = "exit" /\ status' = <<"exit", 1>>
                        ELSE mpc' = "surface" /\ UNCHANGED status
                ELSE /\ section' = "blocks"
                     /\ mpc' = "header"
                     /\ UNCHANGED <<pos, pc, directory, err, status>>
       ELSE /\ section' = args.extract_data
            /\ mpc' = "header"
            /\ UNCHANGED <<pos, pc, directory, err, status>>
    /\ UNCHANGED <<decoder, file, k, out, fnvars, suspended, args, opened,
                   offsets, rows>>

\* the dict comprehension with a failure of read_surface taken as its end
MainSurfaceChunk_tolerant ==
    /\ mpc = "surface"
    /\ read_section_chunk
    /\ IF pc' = "error"
       THEN /\ mpc' = "header"
            /\ UNCHANGED <<offsets, status>>
       ELSE /\ offsets' = dict_update(offsets, decoder, file, out'[Len(out')],
                                      PyInt(args.plane[2])[2])
            /\ UNCHANGED <<mpc, status>>
    /\ UNCHANGED <<decoder, file, section, directory, fnvars, suspended,
                   args, opened, rows>>

\* main, lines 84-86: the dict comprehension takes the surface points of the
\* next chunk
MainSurfaceChunk ==
    /\ mpc = "surface"
    /\ read_section_chunk
    /\ IF pc' = "error"
       THEN /\ mpc' = "exit" /\ status' = <<"exit", 1>>
            /\ UNCHANGED offsets
       ELSE /\ offsets' = dict_update(offsets, decoder, file, out'[Len(out')],
                                      PyInt(args.plane[2])[2])
            /\ UNCHANGED <<mpc, status>>
    /\ UNCHANGED <<decoder, file, section, directory, fnvars, suspended,
                   args, opened, rows>>

\* the blocks are turned to before read_surface is exhausted
MainSurfaceDone_early ==
    /\ mpc = "surface"
    /\ pc = "loop"
    /\ section' = "blocks"
    /\ k' = 0
    /\ out' = <<>>
    /\ mpc' = "header"
    /\ UNCHANGED <<decoder, file, pos, pc, directory, err, fnvars, suspended,
                   args, opened, offsets, rows, status>>

\* main, lines 86-88: read_surface is exhausted, the dict is complete and
\* read_blocks is set up on the same directory
MainSurfaceDone ==
    /\ mpc = "surface"
    /\ pc = "loop"
    /\ k = Len(directory)
    /\ section' = "blocks"
    /\ k' = 0
    /\ out' = <<>>
    /\ mpc' = "header"
    /\ UNCHANGED <<decoder, file, pos, pc, directory, err, fnvars, suspended,
                   args, opened, offsets, rows, status>>

\* main, lines 95-97
MainWriteHeader ==
    /\ mpc = "header"
    /\ rows' = <<fields(args.extract_data)>>
    /\ mpc' = "rows"
    /\ UNCHANGED <<rdvars, fnvars, suspended, args, opened, offsets, status>>

\* main, line 98: writerows starts the reader, which reads the directory
\* unless it was given one
MainReadDirectory ==
    /\ mpc = "rows"
    /\ read_section_directory
    /\ IF pc' = "error"
       THEN mpc' = "exit" /\ status' = <<"exit", 1>>
       ELSE UNCHANGED <<mpc, status>>
    /\ UNCHANGED <<decoder, file, section, k, out, fnvars, suspended, args,
                   opened,
                   offsets, rows>>

\* main, line 98: writerows takes the records of the next chunk through the
\* filter and writes those kept
MainWriteRows ==
    /\ mpc = "rows"
    /\ read_section_chunk
    /\ IF pc' = "error"
       THEN /\ mpc' = "exit" /\ status' = <<"exit", 1>>
            /\ UNCHANGED rows
       ELSE \E b \in {out'[Len(out')]} :
                IF ~plane_filter(args)
                THEN /\ rows' = rows \o Records(decoder, section, file, b, Indexes(b.n))
                     /\ UNCHANGED <<mpc, status>>
                ELSE IF ~starts_with_sign(args.plane[2])
                THEN \E kept \in {filter_absolute(b, PyInt(args.plane[2])[2])} :
                     /\ rows' = rows \o Records(decoder, section, file, b, kept)
                     /\ UNCHANGED <<mpc, status>>
                ELSE \E n \in {FirstKeyError(b, offsets)} :
                     \E kept \in {filter_relative(b, offsets, n)} :
                         /\ rows' = rows \o Records(decoder, section, file, b, kept)
                         /\ IF n < b.n
                            THEN mpc' = "exit" /\ status' = <<"exit", 1>>
                            ELSE UNCHANGED <<mpc, status>>
    /\ UNCHANGED <<decoder, file, section, directory, fnvars, suspended,
                   args, opened, offsets>>

\* main, line 98 and line 103: the reader is exhausted, main returns None
MainDone ==
    /\ mpc = "rows"
    /\ pc = "loop"
    /\ k = Len(directory)
    /\ pc' = "done"
    /\ mpc' = "exit"
    /\ status' = <<"exit", 0>>
    /\ UNCHANGED <<decoder, file, pos, section, directory, k, out, err, fnvars,
                   suspended,
                   args, opened, offsets, rows>>

NextMain ==
    \/ MainSelectDecoder
    \/ MainOpen
    \/ MainPlan
    \/ MainSurfaceChunk
    \/ MainSurfaceDone
    \/ MainWriteHeader
    \/ MainReadDirectory
    \/ MainWriteRows
    \/ MainDone

SpecMain == InitMain /\ [][NextMain]_vars

(***************************************************************************)
(* SpecShared: two generators, each of read_blocks or read_surface, on one *)
(* file object, consumed in any interleaving.  A generator runs from one   *)
(* next() to its yield without the other running: the variables pc,        *)
(* section, directory, k, out, err are the locals of the generator that    *)
(* is being resumed, `suspended' holds the locals of the other one, and    *)
(* pos, the position of the file object, is shared.                        *)
(***************************************************************************)
\* the files read by two generators: those of the runs of the script and
\* the files cut short
SharedFiles(dec) == MainFiles(dec) \cup CutFiles(dec)

InitShared ==
    /\ decoder \in Decoders
    /\ file \in SharedFiles(decoder)
    /\ section \in {"blocks", "surface"}
    /\ pos = 0
    /\ pc = "start"
    /\ directory = <<>>
    /\ k = 0
    /\ out = <<>>
    /\ err = ""
    /\ \E sec \in {"blocks", "surface"} :
          suspended = [id |-> 2, section |-> sec, pc |-> "start", directory |-> <<>>,
                   k |-> 0, out |-> <<>>, err |-> ""]
    /\ call = NoCall
    /\ ret = Pending
    /\ args = <<>>
    /\ mpc = "idle"
    /\ opened = FALSE
    /\ offsets = <<>>
    /\ rows = <<>>
    /\ status = <<"running">>

\* the consumer turns to the other generator: the next step resumes it
Switch ==
    /\ suspended /= <<>>
    /\ section' = suspended.section
    /\ pc' = suspended.pc
    /\ directory' = suspended.directory
    /\ k' = suspended.k
    /\ out' = suspended.out
    /\ err' = suspended.err
    /\ suspended' = [id |-> 3 - suspended.id, section |-> section, pc |-> pc,
                 directory |-> directory, k |-> k, out |-> out, err |-> err]
    /\ UNCHANGED <<decoder, file, pos, fnvars, mnvars>>

NextShared ==
    \/ ReadDirectory
    \/ ReadChunk
    \/ Finish
    \/ Switch

SpecShared == InitShared /\ [][NextShared]_vars

(***************************************************************************)
(* Claims about extract_bits (SpecFn).                                     *)
(***************************************************************************)
IsExtract == call[1] = "extract_bits"
ExtractDone == IsExtract /\ ret /= Pending
ArgValue == BitsToNat(call[2])
ArgWidth == call[3]
ArgOffset == call[4]

\* (value >> offset) & ((1 << width) - 1), on plain integers
ShiftAndMask(value, width, offset) == (value \div 2^offset) % 2^width

\* offset of the highest set bit of value > 0, the LSB having offset 0
HighestSetBit(value) == Len(NatToBits(value)) - 1

ExtractFormula ==
    /\ ret[1] = "ok"
    /\ BitsToNat(ret[2]) = ShiftAndMask(ArgValue, ArgWidth, ArgOffset)
    /\ ret[2] = NatToBits(BitsToNat(ret[2]))
    /\ BitsToNat(ret[2]) \in 0..(2^ArgWidth - 1)
    /\ ArgWidth = 0 => BitsToNat(ret[2]) = 0

\* C1 as claimed: for non-negative value, width and offset, extract_bits
\* returns (value >> offset) & ((1 << width) - 1), which is in 0..2^width-1,
\* is 0 for width 0, and is 0 when offset is at or beyond the highest set bit.
C1_AsClaimed ==
    (ExtractDone /\ ArgWidth >= 0 /\ ArgOffset >= 0) =>
        /\ ExtractFormula
        /\ (ArgValue > 0 /\ ArgOffset >= HighestSetBit(ArgValue))
               => BitsToNat(ret[2]) = 0

\* C1 amended: for non-negative value, width and offset, extract_bits
\* returns (value >> offset) & ((1 << width) - 1), which is in 0..2^width-1,
\* is 0 for width 0, and is 0 when offset is strictly beyond the highest set
\* bit of value (offset >= the bit length of value).
C1_ExtractFormula ==
    (ExtractDone /\ ArgWidth >= 0 /\ ArgOffset >= 0) =>
        /\ ExtractFormula
        /\ (ArgValue > 0 /\ ArgOffset > HighestSetBit(ArgValue))
               => BitsToNat(ret[2]) = 0

\* the docstring's example: 5 bits at offset 7 of 0b1101011001111010 are 0b01100
C1_Witness ==
    /\ ExtractDone
    /\ ArgValue = DocExample /\ ArgWidth = 5 /\ ArgOffset = 7
    /\ ret = <<"ok", NatToBits(12)>>

\* C2: with a negative width extract_bits raises ValueError for every value
\* and every offset, and never returns a number.
C2_NegativeWidthRaises ==
    (ExtractDone /\ ArgWidth < 0) => ret = <<"raise", "ValueError">>

C2_Witness ==
    /\ ExtractDone
    /\ ArgWidth < 0 /\ ArgOffset > 0 /\ ArgValue > 0
    /\ ret = <<"raise", "ValueError">>

\* C3: extract_bits(0, width, offset) = 0 for all non-negative width, offset.
C3_ExtractFromZero ==
    (ExtractDone /\ ArgValue = 0 /\ ArgWidth >= 0 /\ ArgOffset >= 0)
        => ret = <<"ok", NatToBits(0)>>

C3_Witness ==
    /\ ExtractDone
    /\ ArgValue = 0 /\ ArgWidth = MaxWidth /\ ArgOffset = MaxOffset
    /\ ret = <<"ok", <<>>>>

(***************************************************************************)
(* Claims about parse_block and parse_surface_point (SpecParse).           *)
(***************************************************************************)
ParseBlockDone(dec) == call[1] = "parse_block" /\ call[2] = dec /\ ret /= Pending
ParseSurfaceDone == call[1] = "parse_surface_point" /\ ret /= Pending
ArgI == call[3]
ArgChunkX == call[4]
ArgChunkY == call[5]
ArgBytes == call[6]
Parsed == ret[2]

\* C4: format B block decoding round-trips: the word
\* (state << 14) | (light << 10) | type decodes to that type, light and state,
\* and the three fields decoded from any 32-bit word lie in 0..2^10-1,
\* 0..2^4-1 and 0..2^18-1 and reassemble to that same word.
C4_Format129RoundTrip ==
    ParseBlockDone("129") =>
        /\ \A p \in PackedSamples :
              ArgBytes = p[1] =>
                  /\ Parsed.type = p[2][1]
                  /\ Parsed.light = p[2][2]
                  /\ Parsed.state = p[2][3]
        /\ Parsed.type \in 0..(2^10 - 1)
        /\ Parsed.light \in 0..(2^4 - 1)
        /\ Parsed.state \in 0..(2^18 - 1)
        /\ PackWord(Parsed.type, Parsed.light, Parsed.state) = unpack_I(ArgBytes)

\* the fixture of the specification: type 511, light 9, state 12345
C4_Witness ==
    /\ ParseBlockDone("129")
    /\ ArgBytes = pack_I(PackWord(511, 9, 12345))
    /\ Parsed.type = 511 /\ Parsed.light = 9 /\ Parsed.state = 12345

\* C5: format A block decoding: bytes (b0, b1) give type = b0,
\* light = b1 mod 16 and state = b1 div 16, so light + 16*state = b1.
C5_Format128Fields ==
    ParseBlockDone("128") =>
        /\ Parsed.type = ArgBytes[1]
        /\ Parsed.light = ArgBytes[2] % 16
        /\ Parsed.state = ArgBytes[2] \div 16
        /\ Parsed.light + 16 * Parsed.state = ArgBytes[2]

\* the fixture of the specification: (7, 0x35) gives type 7, light 5, state 3
C5_Witness ==
    /\ ParseBlockDone("128")
    /\ ArgBytes = <<7, 53>>
    /\ Parsed.type = 7 /\ Parsed.light = 5 /\ Parsed.state = 3

\* C6: in both formats the block of linear index i of the chunk at (cx, cy)
\* has x = i div 2048 + 16*cx, y = (i div 128) mod 16 + 16*cy, z = i mod 128.
C6_BlockCoordinates ==
    (call[1] = "parse_block" /\ ret /= Pending) =>
        /\ Parsed.x = ArgI \div 2048 + 16 * ArgChunkX
        /\ Parsed.y = ((ArgI \div 128) % 16) + 16 * ArgChunkY
        /\ Parsed.z = ArgI % 128

\* chunk (2, 3): index 32767 is the block at (47, 63, 127)
C6_Witness ==
    /\ ParseBlockDone("128")
    /\ ArgChunkX = 2 /\ ArgChunkY = 3 /\ ArgI = 32767
    /\ Parsed.x = 47 /\ Parsed.y = 63 /\ Parsed.z = 127

\* C7: in both formats the surface point of linear index i of the chunk at
\* (cx, cy) has x = i div 16 + 16*cx and y = i mod 16 + 16*cy.
C7_SurfaceCoordinates ==
    ParseSurfaceDone =>
        /\ Parsed.x = ArgI \div 16 + 16 * ArgChunkX
        /\ Parsed.y = (ArgI % 16) + 16 * ArgChunkY

\* chunk (2, 3): index 0x5A is the surface point at (32 + 5, 48 + 10)
C7_Witness ==
    /\ ParseSurfaceDone
    /\ call[2] = "129"
    /\ ArgChunkX = 2 /\ ArgChunkY = 3 /\ ArgI = 90
    /\ Parsed.x = 37 /\ Parsed.y = 58

(***************************************************************************)
(* Claims about offset_from_index (SpecFn).                                *)
(***************************************************************************)
OffsetDone(dec) ==
    call[1] = "offset_from_index" /\ call[2] = dec /\ ret /= Pending
ArgIndex == call[3]

\* C10: in format B the chunk of directory index k is at byte
\* directory_size + k*chunk_size, with directory_size = 12*65537 and
\* chunk_size = 16 + 32768*4 + 256*4 (whenever that offset is in the range of
\* the offsets array); index 0 starts right after the directory and chunks of
\* distinct indexes do not overlap.  In format A the offset is the entry.
C10_OffsetFromIndex ==
    /\ (OffsetDone("129") /\ ret[2][1] = "int") =>
          /\ ret[2][2] = 12 * 65537 + ArgIndex * (16 + 32768 * 4 + 256 * 4)
          /\ ArgIndex = 0 => ret[2][2] = directory_size
          /\ \A j \in IndexSamples :
                LET other == offset_from_index("129", j)
                IN  (j /= ArgIndex /\ other[1] = "int") =>
                        \/ ret[2][2] - other[2] >= chunk_size("129")
                        \/ other[2] - ret[2][2] >= chunk_size("129")
    /\ OffsetDone("129") => (ret[2][1] = "int" <=> ArgIndex \in (-16260)..16249)
    /\ OffsetDone("128") => ret[2] = <<"int", ArgIndex>>

C10_Witness ==
    /\ OffsetDone("129")
    /\ ArgIndex = 2
    /\ ret[2] = <<"int", 786444 + 2 * 132112>>

\* C14: format A directory entries are unsigned 32-bit values with 0 as the
\* only unused marker: read_directory returns, in order, every entry value in
\* 1..2^32-1 as that same non-negative byte offset.
C14_AsClaimed ==
    (call[1] = "read_directory" /\ call[2] = "128" /\ ret /= Pending) =>
        LET used == SelectSeq(call[3], LAMBDA e : unpack_I(e) /= <<>>)
        IN  /\ ret[1] = "ok"
            /\ Len(ret[2]) = Len(used)
            /\ \A j \in 1..Len(used) :
                  /\ ret[2][j] >= 0
                  /\ NatToBits(ret[2][j]) = unpack_I(used[j])

(***************************************************************************)
(* Claims about read_directory and the emitted record sequence (Spec).     *)
(***************************************************************************)
\* the directory slots whose entry is not the unused marker of the format:
\* 0 for format A, -1 for format B
UsedSlots ==
    { i \in DOMAIN file.dir : file.dir[i] /= (IF decoder = "128" THEN 0 ELSE -1) }

\* the j-th used slot, in table order
NthUsedSlot(j) ==
    CHOOSE i \in UsedSlots : Cardinality({ m \in UsedSlots : m <= i }) = j

\* C9: from a file that holds its whole directory read_directory returns, in
\* table-slot order, offset_from_index(e) for each entry e that is not the
\* sentinel (0 for format A, -1 for format B), with nothing reordered and
\* nothing dropped; it returns nothing at all, and raises OverflowError,
\* exactly when one of these offsets is no C int.
C9_ReadDirectory ==
    (pc /= "start" /\ file.size >= directory_size) =>
        IF \E i \in UsedSlots : offset_from_index(decoder, file.dir[i])[1] = "huge"
        THEN pc = "error" /\ err = "OverflowError" /\ directory = <<>>
        ELSE /\ err /= "OverflowError"
             /\ Len(directory) = Cardinality(UsedSlots)
             /\ \A j \in 1..Len(directory) :
                   directory[j] =
                       offset_from_index(decoder, file.dir[NthUsedSlot(j)])[2]

\* entries [sentinel, 1000, sentinel, 2000] give the offsets of 1000 and 2000
C9_Witness ==
    /\ decoder = "129"
    /\ file.dir = <<-1, 1000, -1, 2000>>
    /\ pc = "loop"
    /\ directory = <<786444 + 1000 * 132112, 786444 + 2000 * 132112>>

\* C11: when the file holds fewer bytes than directory_size, read_directory
\* fails with a truncation error and returns no offsets.
C11_AsClaimed ==
    (pc /= "start" /\ file.size < directory_size) =>
        pc = "error" /\ err = "struct.error" /\ directory = <<>>

\* the coordinates of a record: (x, y, z) of a block, (x, y) of a surface point
Coordinates(sec, r) == IF sec = "blocks" THEN <<r.x, r.y, r.z>> ELSE <<r.x, r.y>>

\* the coordinates that the parse function gives item i of a section of the
\* chunk at (chunk_x, chunk_y); the data of the item has no part in them
ItemCoordinates(sec, i, chunk_x, chunk_y) ==
    IF sec = "blocks"
    THEN <<block_x(i, chunk_x), block_y(i, chunk_y), block_z(i)>>
    ELSE <<surface_x(i, chunk_x), surface_y(i, chunk_y)>>

\* the number of items of a complete section
ItemCount(dec, sec) == read_size(dec, sec) \div item_struct_size(dec, sec)

\* C12: read_blocks / read_surface never emits, for a chunk of which the file
\* holds fewer bytes than the header and the section require, a shortened
\* record sequence: every chunk it emits records for gives all the records
\* of its section, and a chunk cut short ends the read with a truncation
\* error.
C12_AsClaimed ==
    /\ \A p \in 1..Len(out) : out[p].n = ItemCount(decoder, section)
    /\ (pc = "loop" /\ k < Len(directory) /\ directory[k + 1] >= 0
          /\ Avail(file, directory[k + 1], chunk_size(decoder)) < chunk_size(decoder)
          /\ read_header(decoder, file, directory[k + 1])[1] = "ok"
          /\ read_header(decoder, file, directory[k + 1])[2].magic = MAGIC(decoder))
         => iter_unpack_section(decoder, section, file, directory[k + 1])[1] = "raise"

\* the coordinates of the records of a batch of n items of the chunk at g
CoordinatesOf(sec, g, n) ==
    { ItemCoordinates(sec, i, g[1], g[2]) : i \in 0..(n - 1) }

\* CoordinatesOf for the complete sections of the chunks of the modelled
\* files, worked out once: <<sec, g, n>> with its coordinates
SectionKeys ==
    { <<sec, g, ItemCount(dec, sec)>> :
        sec \in {"blocks", "surface"}, g \in GridSamples, dec \in Decoders }

SectionCoordinates == { <<key, CoordinatesOf(key[1], key[2], key[3])>> : key \in SectionKeys }

CoordinatesOfKey(key) == (CHOOSE p \in SectionCoordinates : p[1] = key)[2]

\* the sections in which two records share their coordinates, and the pairs
\* of sections that have coordinates in common
KeysWithDuplicates ==
    { key \in SectionKeys : Cardinality(CoordinatesOfKey(key)) /= key[3] }

OverlappingKeys ==
    { kk \in SectionKeys \X SectionKeys :
        CoordinatesOfKey(kk[1]) \cap CoordinatesOfKey(kk[2]) /= {} }

BatchKey(b) == <<section, <<b.chunk_x, b.chunk_y>>, b.n>>

\* two records of the batch share their coordinates
BatchHasDuplicates(b) ==
    IF BatchKey(b) \in SectionKeys
    THEN BatchKey(b) \in KeysWithDuplicates
    ELSE Cardinality(CoordinatesOf(section, <<b.chunk_x, b.chunk_y>>, b.n)) /= b.n

\* a record of one batch and a record of the other share their coordinates
BatchesOverlap(b1, b2) ==
    IF BatchKey(b1) \in SectionKeys /\ BatchKey(b2) \in SectionKeys
    THEN <<BatchKey(b1), BatchKey(b2)>> \in OverlappingKeys
    ELSE CoordinatesOf(section, <<b1.chunk_x, b1.chunk_y>>, b1.n)
            \cap CoordinatesOf(section, <<b2.chunk_x, b2.chunk_y>>, b2.n) /= {}

\* the records of a batch do carry these coordinates (tried on the first and
\* last record and on the records around the turns of x, y and z)
CoordinatesOfRecords ==
    \A p \in 1..Len(out) : \A i \in IndexCorners :
        i < out[p].n =>
            Coordinates(section, Record(decoder, section, file, out[p], i))
                = ItemCoordinates(section, i, out[p].chunk_x, out[p].chunk_y)

\* no two of the records emitted so far share their coordinates
NoSharedCoordinates ==
    \A p \in 1..Len(out) :
        /\ ~BatchHasDuplicates(out[p])
        /\ \A q \in (p + 1)..Len(out) : ~BatchesOverlap(out[p], out[q])

\* the chunks read so far carry pairwise distinct grid positions
DistinctGridPositions ==
    \A p, q \in 1..Len(out) :
        p /= q => <<out[p].chunk_x, out[p].chunk_y>> /= <<out[q].chunk_x, out[q].chunk_y>>

\* the header of the chunk that the read is about to turn to spells another
\* magic than the decoder's
NextMagicDiffers ==
    /\ pc = "loop"
    /\ k < Len(directory)
    /\ read_header(decoder, file, directory[k + 1])[1] = "ok"
    /\ read_header(decoder, file, directory[k + 1])[2].magic /= MAGIC(decoder)

\* the read has failed on the magic of chunk k + 1 of the directory, having
\* emitted all the records of chunks 1..k of a complete file and no others
FailedAtMagic ==
    /\ pc = "error"
    /\ k < Len(directory)
    /\ read_header(decoder, file, directory[k + 1])[2].magic /= MAGIC(decoder)
    /\ Len(out) = k
    /\ \A j \in 1..k :
          /\ out[j].offset = directory[j]
          /\ file.chunks[directory[j]].magic = MAGIC(decoder)
          /\ file.size = FileSize(decoder, file)
                => out[j].n = ItemCount(decoder, section)

\* C13: if the header magic of the k-th chunk in directory order differs from
\* the decoder's magic the read fails at that chunk with ValueError: the
\* records emitted before are exactly the records of chunks 1..k-1, and no
\* record of chunk k or of a later chunk is emitted then or afterwards.
C13_MagicMismatch ==
    /\ [](err = "ValueError" => FailedAtMagic)
    /\ [][NextMagicDiffers => (err' = "ValueError" /\ out' = out)]_vars
    /\ [][pc = "error" => out' = out]_vars

\* the second of three chunks of the directory has the wrong magic, the
\* third is valid: one batch is out, the read has failed
C13_Witness ==
    /\ err = "ValueError"
    /\ Len(directory) = 3 /\ k = 1 /\ Len(out) = 1
    /\ out[1].n = ItemCount(decoder, section)
    /\ directory[3] \in DOMAIN file.chunks
    /\ file.chunks[directory[3]].magic = MAGIC(decoder)

\* C8 as claimed: whatever the directory and the chunk headers hold, no two
\* block records emitted by read_blocks share (x, y, z) and no two surface
\* points emitted by read_surface share (x, y).
C8_AsClaimed == CoordinatesOfRecords /\ NoSharedCoordinates

\* C8 amended: no two emitted records share their coordinates provided the
\* chunks read, one per non-sentinel directory entry, carry pairwise distinct
\* grid positions (chunk_x, chunk_y) in their headers.
C8_UniqueCoordinates ==
    /\ CoordinatesOfRecords
    /\ DistinctGridPositions => NoSharedCoordinates

\* a complete read of two neighbouring chunks, (0, 0) and (0, 1)
C8_Witness ==
    /\ pc = "done"
    /\ section = "blocks"
    /\ Len(out) = 2
    /\ <<out[1].chunk_x, out[1].chunk_y>> = <<0, 0>>
    /\ <<out[2].chunk_x, out[2].chunk_y>> = <<0, 1>>
    /\ out[1].n = 32768 /\ out[2].n = 32768
    /\ NoSharedCoordinates

(***************************************************************************)
(* Claims about the plane filter of the script (SpecMain).  `out' holds    *)
(* the batches that read_blocks has yielded so far: the unfiltered output. *)
(***************************************************************************)
\* the run filters blocks by an absolute plane, or by one relative to the
\* surface; PlaneNumber is int(args.plane)
AbsoluteRun ==
    /\ plane_filter(args)
    /\ ~starts_with_sign(args.plane[2])
    /\ PyInt(args.plane[2])[1] = "ok"

RelativeRun ==
    /\ plane_filter(args)
    /\ starts_with_sign(args.plane[2])
    /\ PyInt(args.plane[2])[1] = "ok"

PlaneNumber == PyInt(args.plane[2])[2]

\* the rows written after the header row
DataRows == IF rows = <<>> THEN <<>> ELSE Tail(rows)

\* the number of columns (x, y) of which a batch of n blocks holds a block:
\* the blocks of a column are CHUNK_DEPTH successive records
ColumnsOf(b) == (b.n + CHUNK_DEPTH - 1) \div CHUNK_DEPTH

\* the indexes of the blocks of a batch at height z0, column by column
AbsoluteIndexes(b, z0) ==
    SelectSeq([c \in 1..ColumnsOf(b) |-> (c - 1) * CHUNK_DEPTH + z0],
              LAMBDA i : z0 \in 0..(CHUNK_DEPTH - 1) /\ i < b.n)

\* the blocks at height PlaneNumber of the batches p.. of the unfiltered
\* output, in its order
RECURSIVE BlocksOfPlane(_)
BlocksOfPlane(p) ==
    IF p > Len(out) THEN <<>>
    ELSE Records(decoder, "blocks", file, out[p],
                 AbsoluteIndexes(out[p], PlaneNumber))
         \o BlocksOfPlane(p + 1)

\* indexes at which the z of the record is compared with the plane: the
\* corners of the index range and the one block of the chunk that is not 0
ProbedIndexes == IndexCorners \cup DOMAIN FixtureBlocks("128")

\* C15: with an absolute plane z0 the rows written after the header are
\* exactly the blocks with z = z0 of the unfiltered read_blocks output, in
\* its order: none with another z is written, none with z = z0 is dropped,
\* whatever its type.
C15_AbsoluteFilter ==
    (AbsoluteRun /\ rows /= <<>>) =>
        /\ rows[1] = fields("blocks")
        /\ DataRows = BlocksOfPlane(1)
        /\ \A j \in 1..Len(DataRows) : DataRows[j].z = PlaneNumber
        /\ \A q \in 1..Len(out) : \A i \in ProbedIndexes :
              i < out[q].n =>
                  LET r == Record(decoder, "blocks", file, out[q], i)
                  IN  r.z = PlaneNumber <=> \E j \in 1..Len(DataRows) : DataRows[j] = r

\* plane 10 on two chunks: 512 rows, the block of type 9 and blocks of type 0
C15_Witness ==
    /\ AbsoluteRun /\ PlaneNumber = 10
    /\ status = <<"exit", 0>>
    /\ Len(out) = 2
    /\ Len(DataRows) = 512
    /\ DataRows[1] = [x |-> 0, y |-> 0, z |-> 10, type |-> 0, light |-> 0, state |-> 0]
    /\ \E j \in 1..Len(DataRows) : DataRows[j].type = 9

\* the elevation of the surface point that the surface pass decodes last for
\* the column: that of the last chunk of the directory that holds the column
ElevationAt(column) ==
    LET s == (column[1] % CHUNK_WIDTH) * CHUNK_WIDTH + (column[2] % CHUNK_HEIGHT)
        holds(q) ==
            LET hdr == read_header(decoder, file, directory[q])
            IN  /\ hdr[1] = "ok"
                /\ hdr[2].chunk_x = column[1] \div CHUNK_WIDTH
                /\ hdr[2].chunk_y = column[2] \div CHUNK_HEIGHT
                /\ s < iter_unpack_section(decoder, "surface", file, directory[q])[2]
        q == MaxOf({ j \in 1..Len(directory) : holds(j) })
    IN  unpack_BB(SurfaceBytes(file.chunks[directory[q]], s))[1]

\* the indexes of the blocks of a batch at the height of their column's
\* elevation + PlaneNumber, column by column
RelativeIndexes(b) ==
    SelectSeq([c \in 1..ColumnsOf(b) |->
                  LET z == ElevationAt(Column(b, (c - 1) * CHUNK_DEPTH)) + PlaneNumber
                  IN  IF z \in 0..(CHUNK_DEPTH - 1)
                      THEN (c - 1) * CHUNK_DEPTH + z ELSE -1],
              LAMBDA i : i >= 0 /\ i < b.n)

\* the filter has failed on a block whose column is no key of the dict
\* (KeyError): the run has ended with status 1 though the reader has not failed
KeyErrorRaised ==
    /\ RelativeRun
    /\ status = <<"exit", 1>>
    /\ section = "blocks"
    /\ pc = "loop"
    /\ rows /= <<>>

RECURSIVE BlocksAtElevation(_)
BlocksAtElevation(p) ==
    IF p > Len(out) THEN <<>>
    ELSE Records(decoder, "blocks", file, out[p], RelativeIndexes(out[p]))
         \o BlocksAtElevation(p + 1)

\* C16: with a plane N relative to the surface the rows written after the
\* header are exactly the blocks with z = elevation(x, y) + N of the
\* unfiltered read_blocks output, in its order, where elevation(x, y) is the
\* elevation of the surface point decoded for the column (x, y) from the
\* same file (every column read having a surface point).
C16_RelativeFilter ==
    (RelativeRun /\ rows /= <<>> /\ ~KeyErrorRaised) =>
        /\ rows[1] = fields("blocks")
        /\ DataRows = BlocksAtElevation(1)
        /\ \A j \in 1..Len(DataRows) :
              DataRows[j].z = ElevationAt(<<DataRows[j].x, DataRows[j].y>>) + PlaneNumber

\* plane -40 on the chunk with elevation 50 at (5, 5) and 0 elsewhere: the
\* one row is the block at (5, 5, 10)
C16_Witness ==
    /\ RelativeRun /\ PlaneNumber = -40
    /\ status = <<"exit", 0>>
    /\ DataRows = <<[x |-> 5, y |-> 5, z |-> 10, type |-> 9, light |-> 0, state |-> 0]>>

\* the surface pass has read every chunk of the directory, in its order, and
\* its reader is exhausted
SurfacePassComplete ==
    /\ pc = "loop"
    /\ k = Len(directory)
    /\ Len(out) = Len(directory)
    /\ \A j \in 1..Len(directory) : out[j].offset = directory[j]

\* C17: in a run with a plane relative to the surface the surface pass runs
\* to completion over every chunk of the directory before the first block
\* section is read and before any block row is written, and the two passes
\* never interleave: the reader turns from the surface sections to the block
\* sections only when the surface pass is complete, nothing is written while
\* the surface sections are read, and the reader never turns back.
C17_SurfacePassFirst ==
    /\ [][(RelativeRun /\ section = "surface" /\ section' = "blocks")
             => (SurfacePassComplete /\ rows = <<>> /\ rows' = <<>> /\ out' = <<>>)]_vars
    /\ [][(RelativeRun /\ section' = "surface") => rows' = <<>>]_vars
    /\ [][(RelativeRun /\ section = "blocks")
             => (section' = "blocks" /\ offsets' = offsets)]_vars

\* both chunks of the directory went through the surface pass (512 columns)
\* before the rows of the first chunk were written
C17_Witness ==
    /\ RelativeRun
    /\ section = "blocks"
    /\ Len(directory) = 2
    /\ Cardinality(DOMAIN offsets) = 512
    /\ Len(out) = 1
    /\ Len(rows) > 1

(***************************************************************************)
(* The end-to-end example: a format A file of one chunk at grid (0, 0),    *)
(* all blocks zero but type 9 at (5, 5, 10), elevation 50 at (5, 5).       *)
(***************************************************************************)
FixtureRun ==
    /\ decoder = "128"
    /\ args.extract_data = "blocks"
    /\ file.dir = <<directory_size>>
    /\ file.size = directory_size + chunk_size("128")
    /\ DOMAIN file.chunks = {directory_size}
    /\ LET chunk == file.chunks[directory_size]
       IN  /\ chunk.magic = MAGIC("128")
           /\ chunk.x = 0 /\ chunk.y = 0
           /\ chunk.blocks = (5 * 2048 + 5 * 128 + 10) :> <<9, 0>>
           /\ chunk.surface = (5 * 16 + 5) :> <<50, 0, 0, 0>>

\* the run over the example has ended with status 0
FixtureRunDone == FixtureRun /\ status = <<"exit", 0>>

TheBlock == [x |-> 5, y |-> 5, z |-> 10, type |-> 9, light |-> 0, state |-> 0]

\* the j-th of the 256 columns of the chunk, in the order of the blocks
ColumnX(j) == (j - 1) \div CHUNK_HEIGHT
ColumnY(j) == (j - 1) % CHUNK_HEIGHT

\* C18 as claimed: on the example the absolute filter z = 10 yields exactly
\* one record, (5, 5, 10, 9, 0, 0).
C18_AsClaimed ==
    (FixtureRunDone /\ AbsoluteRun /\ PlaneNumber = 10) => DataRows = <<TheBlock>>

\* C18 amended: on the example the absolute filter z = 10 yields 256 records,
\* the block at z = 10 of each of the 16*16 columns in the order of x, then y;
\* exactly one of them has a type other than 0: (5, 5, 10, 9, 0, 0).
C18_FixtureAbsolute ==
    (FixtureRunDone /\ AbsoluteRun /\ PlaneNumber = 10) =>
        /\ Len(DataRows) = CHUNK_WIDTH * CHUNK_HEIGHT
        /\ \A j \in 1..Len(DataRows) :
              DataRows[j] = IF <<ColumnX(j), ColumnY(j)>> = <<5, 5>> THEN TheBlock
                            ELSE [x |-> ColumnX(j), y |-> ColumnY(j), z |-> 10,
                                  type |-> 0, light |-> 0, state |-> 0]
        /\ Cardinality({ j \in 1..Len(DataRows) : DataRows[j].type /= 0 }) = 1

C18_Witness ==
    /\ FixtureRunDone /\ AbsoluteRun /\ PlaneNumber = 10
    /\ Len(rows) = 257
    /\ \E j \in 1..Len(DataRows) : DataRows[j] = TheBlock

\* C19 as claimed: on the example the filter '+0' relative to the surface
\* yields no records at all.
C19_AsClaimed ==
    (FixtureRunDone /\ RelativeRun /\ args.plane[2] = <<"+", "0">>) => DataRows = <<>>

\* C19 amended: on the example the filter '+0' yields 256 records, one for
\* each column, the block at the height of the column's elevation: the block
\* (5, 5, 50) and the blocks at z = 0 of the other columns, all of type 0;
\* the block of type 9 is not among them.
C19_FixtureRelative ==
    (FixtureRunDone /\ RelativeRun /\ args.plane[2] = <<"+", "0">>) =>
        /\ Len(DataRows) = CHUNK_WIDTH * CHUNK_HEIGHT
        /\ \A j \in 1..Len(DataRows) :
              DataRows[j] = [x |-> ColumnX(j), y |-> ColumnY(j),
                             z |-> IF <<ColumnX(j), ColumnY(j)>> = <<5, 5>>
                                   THEN 50 ELSE 0,
                             type |-> 0, light |-> 0, state |-> 0]

C19_Witness ==
    /\ FixtureRunDone /\ RelativeRun /\ args.plane[2] = <<"+", "0">>
    /\ Len(rows) = 257
    /\ \E j \in 1..Len(DataRows) : DataRows[j].z = 50 /\ DataRows[j].x = 5

(***************************************************************************)
(* Claims about the choice of the decoder (SpecMain).                      *)
(***************************************************************************)
\* the run was started with version 'auto' and is past the choice
AutoChosen == args.file_version = "auto" /\ mpc /= "start"

\* the base name of the path given, if one was given
HasPath == args.chunks_file[1] = "str"
PathBaseName == args.chunks_file[2][Len(args.chunks_file[2])]

\* the run has ended with status 2, the input not opened, nothing written
FailedBeforeOpen ==
    /\ status = <<"exit", 2>>
    /\ mpc = "exit"
    /\ decoder = "none"
    /\ ~opened
    /\ pos = 0 /\ pc = "start"
    /\ rows = <<>>

\* C20: with version 'auto' a decoder is selected only when the base name of
\* the input path equals a format's expected name ('Chunks.dat' selects
\* format A, 'Chunks32.dat' format B); with no input path, or a base name
\* that matches neither, the run ends with status 2 before the input is
\* opened and before anything, the header row included, is written.
C20_AutoDetection ==
    /\ AutoChosen =>
          IF HasPath /\ PathBaseName = "Chunks.dat" THEN decoder = "128"
          ELSE IF HasPath /\ PathBaseName = "Chunks32.dat" THEN decoder = "129"
          ELSE FailedBeforeOpen
    /\ (args /= <<>> /\ args.file_version = "auto" /\ (opened \/ rows /= <<>>))
          => (HasPath /\ PathBaseName \in {"Chunks.dat", "Chunks32.dat"})
    /\ status = <<"exit", 2>> => FailedBeforeOpen

\* 'auto' with the path saves/chunks.dat: status 2
C20_Witness ==
    /\ AutoChosen
    /\ args.chunks_file = <<"str", <<"saves", "chunks.dat">>>>
    /\ FailedBeforeOpen

(***************************************************************************)
(* Claims about the extraction of the surface (SpecMain).                  *)
(***************************************************************************)
SurfaceRun == args /= <<>> /\ args.extract_data = "surface"

\* all the surface points of the batches p.. that read_surface has yielded,
\* in its order: what is written when no plane is given
RECURSIVE SurfaceOfBatches(_)
SurfaceOfBatches(p) ==
    IF p > Len(out) THEN <<>>
    ELSE Records(decoder, "surface", file, out[p], Indexes(out[p].n))
         \o SurfaceOfBatches(p + 1)

\* C21: for the extraction of the surface the plane is ignored: whatever the
\* plane string (absolute, relative, no number at all, or none) the rows
\* written are the header and every surface point that read_surface yields,
\* no block section is read, and the run fails only where the run without a
\* plane fails: on opening the file or in the reader.
C21_SurfaceIgnoresPlane ==
    SurfaceRun =>
        /\ section \in {"none", "surface"}
        /\ offsets = <<>>
        /\ rows /= <<>> =>
              /\ rows[1] = fields("surface")
              /\ DataRows = SurfaceOfBatches(1)
        /\ mpc \in {"header", "rows"} => section = "surface"
        /\ status = <<"exit", 1>> => (pc = "error" \/ ~opened)
        /\ status = <<"exit", 0>> =>
              /\ pc = "done"
              /\ Len(out) = Len(directory)
              /\ Len(rows) = 1 + Len(SurfaceOfBatches(1))

\* the surface of the file of one chunk extracted with the plane '+', which
\* is no number: the header and 256 rows, as with no plane
C21_Witness ==
    /\ SurfaceRun
    /\ args.plane = <<"str", <<"+">>>>
    /\ status = <<"exit", 0>>
    /\ Len(rows) = 257
    /\ rows[1 + 5 * 16 + 5 + 1].elevation = 50

(***************************************************************************)
(* Claims about handle_args (SpecFn).                                      *)
(***************************************************************************)
HandleArgsDone == call[1] = "handle_args" /\ ret /= Pending
ArgDecoders == call[2]
ArgVersion == call[3]
ArgPositional == call[4]

\* the value is a member of SUPPORTED_VERSIONS of one of the decoders passed
SupportedByOne(v) ==
    \E j \in 1..Len(ArgDecoders) : v \in SUPPORTED_VERSIONS(ArgDecoders[j])

\* C22: handle_args accepts a value of -V/--file-version only if it is
\* 'auto' or a member of SUPPORTED_VERSIONS of one of the decoders passed
\* in; any other value ends the parsing with SystemExit ('1.0' and '' with
\* no decoders among them), and 'auto' is accepted even with no decoders.
C22_FileVersionChoices ==
    /\ (HandleArgsDone /\ ArgDecoders = <<>>
           /\ ArgVersion \in {<<"str", "1.0">>, <<"str", "">>})
          => ret = <<"raise", "SystemExit">>
    /\ (HandleArgsDone /\ ArgVersion /= NoneValue) =>
        LET v == ArgVersion[2]
        IN  /\ ret[1] = "ok" =>
                  /\ v = "auto" \/ SupportedByOne(v)
                  /\ ret[2].file_version = v
            /\ ~(v = "auto" \/ SupportedByOne(v)) => ret = <<"raise", "SystemExit">>
            /\ ((v = "auto" \/ SupportedByOne(v))
                   /\ ArgPositional \in {"blocks", "surface"}) => ret[1] = "ok"

\* the calls of the test: 'auto' accepted with no decoders
C22_Witness ==
    /\ HandleArgsDone
    /\ ArgDecoders = <<>>
    /\ ArgVersion = <<"str", "auto">>
    /\ ArgPositional = "surface"
    /\ ret[1] = "ok"
    /\ ret[2].file_version = "auto"

(***************************************************************************)
(* Claims about the number and the order of the records (Spec).            *)
(***************************************************************************)
\* the file holds, at offset, a whole chunk with the magic of the decoder
ChunkComplete(offset) ==
    /\ offset \in DOMAIN file.chunks
    /\ file.chunks[offset].magic = MAGIC(decoder)
    /\ Avail(file, offset, chunk_size(decoder)) = chunk_size(decoder)

\* 16*16*128 blocks, 16*16 surface points
RecordsPerChunk ==
    IF section = "blocks" THEN CHUNK_WIDTH * CHUNK_HEIGHT * CHUNK_DEPTH
    ELSE CHUNK_WIDTH * CHUNK_HEIGHT

RECURSIVE RecordsEmitted(_)
RecordsEmitted(p) == IF p > Len(out) THEN 0 ELSE out[p].n + RecordsEmitted(p + 1)

\* the reader is about to turn to a chunk that is completely present
NextChunkComplete ==
    /\ pc = "loop"
    /\ k < Len(directory)
    /\ ChunkComplete(directory[k + 1])

\* C23: for every directory entry that is not the sentinel and whose chunk
\* has the right magic and is completely present, read_blocks emits exactly
\* 32768 block records and read_surface exactly 256 surface records for that
\* chunk; a read that ends without error over such chunks, of a file that
\* holds its whole directory, emits 32768 (resp. 256) times the number of
\* entries that are not the sentinel.
C23_RecordsPerChunk ==
    /\ [](\A p \in 1..Len(out) :
             ChunkComplete(out[p].offset) => out[p].n = RecordsPerChunk)
    /\ [][NextChunkComplete =>
             /\ pc' = "loop"
             /\ out' = Append(out, out'[Len(out')])
             /\ out'[Len(out')].offset = directory[k + 1]
             /\ out'[Len(out')].n = RecordsPerChunk]_vars
    /\ []((/\ pc = "done"
           /\ file.size >= directory_size
           /\ \A j \in 1..Len(directory) : ChunkComplete(directory[j]))
          => RecordsEmitted(1) = RecordsPerChunk * Cardinality(UsedSlots))

\* read_blocks of format B over two chunks: 2 * 32768 records
C23_Witness ==
    /\ pc = "done"
    /\ decoder = "129" /\ section = "blocks"
    /\ Cardinality(UsedSlots) = 2
    /\ RecordsEmitted(1) = 65536

\* (x, y, z) below (x2, y2, z2) in lexicographic order
LexBelow(t, u) ==
    \/ t[1] < u[1]
    \/ t[1] = u[1] /\ t[2] < u[2]
    \/ t[1] = u[1] /\ t[2] = u[2] /\ t[3] < u[3]

\* from t to u: z + 1; or z wraps 127 -> 0 with y + 1; or z and y both wrap
\* (y from the last row of the chunk at chunk_y to its first) with x + 1
NextInOrder(t, u, chunk_y) ==
    \/ u = <<t[1], t[2], t[3] + 1>> /\ u[3] <= CHUNK_DEPTH - 1
    \/ /\ t[3] = CHUNK_DEPTH - 1 /\ u[3] = 0
       /\ u[2] = t[2] + 1 /\ u[2] <= chunk_y * CHUNK_HEIGHT + CHUNK_HEIGHT - 1
       /\ u[1] = t[1]
    \/ /\ t[3] = CHUNK_DEPTH - 1 /\ u[3] = 0
       /\ t[2] = chunk_y * CHUNK_HEIGHT + CHUNK_HEIGHT - 1
       /\ u[2] = chunk_y * CHUNK_HEIGHT
       /\ u[1] = t[1] + 1

\* the order over all the indexes of a chunk, for the sampled grid positions
OrderOfAllIndexes ==
    \A g \in GridSamples : \A i \in 0..(CHUNK_WIDTH * CHUNK_HEIGHT * CHUNK_DEPTH - 2) :
        /\ NextInOrder(ItemCoordinates("blocks", i, g[1], g[2]),
                       ItemCoordinates("blocks", i + 1, g[1], g[2]), g[2])
        /\ LexBelow(ItemCoordinates("blocks", i, g[1], g[2]),
                    ItemCoordinates("blocks", i + 1, g[1], g[2]))

\* the coordinates of the record that read_blocks emits i-th (from 0) for
\* the chunk of batch b: enumerate numbers the items in the order read
EmittedCoordinates(b, i) ==
    Coordinates("blocks", Record(decoder, "blocks", file, b, i))

\* C24: within one chunk the block records are emitted with z varying
\* fastest, then y, then x: the (x, y, z) of the records of a chunk are
\* strictly increasing in lexicographic order, and consecutive records
\* differ by z + 1, or by z wrapping 127 -> 0 with y + 1, or by z and y both
\* wrapping with x + 1.
C24_BlockOrder ==
    section = "blocks" =>
        /\ OrderOfAllIndexes
        /\ \A p \in 1..Len(out) :
              /\ \A i \in IndexCorners :
                    i + 1 < out[p].n =>
                        NextInOrder(EmittedCoordinates(out[p], i),
                                    EmittedCoordinates(out[p], i + 1),
                                    out[p].chunk_y)
              /\ \A i \in IndexCorners :
                    i + 1 < out[p].n =>
                        /\ LexBelow(EmittedCoordinates(out[p], i),
                                    EmittedCoordinates(out[p], i + 1))
                        /\ LexBelow(EmittedCoordinates(out[p], i),
                                    EmittedCoordinates(out[p], out[p].n - 1))

\* a whole chunk at (1, 0) emitted: record 2047 is (16, 15, 127), the next
\* one (17, 0, 0)
C24_Witness ==
    /\ section = "blocks"
    /\ \E p \in 1..Len(out) :
          /\ out[p].n = 32768
          /\ out[p].chunk_x = 1 /\ out[p].chunk_y = 0
          /\ EmittedCoordinates(out[p], 2047) = <<16, 15, 127>>
          /\ EmittedCoordinates(out[p], 2048) = <<17, 0, 0>>

\* the reader turns to the next chunk: the step reads at the chunk of the
\* next offset of the directory and nowhere else
TurnsToNextChunk ==
    /\ pc = "loop"
    /\ k < Len(directory)
    /\ pos' /= pos

\* C25: chunks are processed in the raw slot order of the directory, not
\* sorted by grid coordinate: the batches emitted are those of the offsets
\* of the directory in order (which are the non-sentinel entries in table
\* order), so all records of the chunk of an earlier slot are emitted before
\* any record of the chunk of a later slot; each step seeks and validates
\* the header of one chunk, the next of the directory, when all the records
\* of the chunks before it have been emitted.
C25_SlotOrder ==
    /\ [](/\ Len(out) = k
          /\ k <= Len(directory)
          /\ \A j \in 1..Len(out) : out[j].offset = directory[j])
    /\ []((pc \in {"loop", "done"} /\ file.size >= directory_size) =>
              /\ Len(directory) = Cardinality(UsedSlots)
              /\ \A j \in 1..Len(directory) :
                    directory[j] =
                        offset_from_index(decoder, file.dir[NthUsedSlot(j)])[2])
    /\ [][out' /= out =>
             /\ pc = "loop" /\ k < Len(directory)
             /\ Len(out') = Len(out) + 1
             /\ SubSeq(out', 1, Len(out)) = out
             /\ out'[Len(out')].offset = directory[k + 1]
             /\ read_header(decoder, file, directory[k + 1])[2].magic = MAGIC(decoder)]_vars
    /\ [][TurnsToNextChunk =>
             /\ Len(out) = k
             /\ pos' >= directory[k + 1]
             /\ pos' <= directory[k + 1] + chunk_size(decoder)]_vars

\* the chunk at grid (0, 1) is listed before the chunk at (0, 0) and is
\* emitted first
C25_Witness ==
    /\ pc = "done"
    /\ Len(out) = 2
    /\ out[1].offset > out[2].offset
    /\ <<out[1].chunk_x, out[1].chunk_y>> = <<0, 1>>
    /\ <<out[2].chunk_x, out[2].chunk_y>> = <<0, 0>>

(***************************************************************************)
(* Claims about two generators on one file object (SpecShared).            *)
(***************************************************************************)
\* what a generator yields for the chunk at offset when it runs alone: the
\* batch, or the exception that ends it
AloneBatch(sec, offset) ==
    LET hdr == read_header(decoder, file, offset)
        items == iter_unpack_section(decoder, sec, file, offset)
    IN  IF hdr[1] = "raise" THEN hdr
        ELSE IF hdr[2].magic /= MAGIC(decoder) THEN <<"raise", "ValueError">>
        ELSE IF items[1] = "raise" THEN items
        ELSE <<"ok", [offset |-> offset, chunk_x |-> hdr[2].chunk_x,
                      chunk_y |-> hdr[2].chunk_y, n |-> items[2]]>>

\* the batches that a generator yields alone for the offsets j.. of the
\* directory d, up to the first chunk that ends it
RECURSIVE AloneOut(_, _, _)
AloneOut(sec, d, j) ==
    IF j > Len(d) THEN <<>>
    ELSE LET b == AloneBatch(sec, d[j])
         IN  IF b[1] = "raise" THEN <<>>
             ELSE <<b[2]>> \o AloneOut(sec, d, j + 1)

\* the exception that ends it, "" if none
RECURSIVE AloneErr(_, _, _)
AloneErr(sec, d, j) ==
    IF j > Len(d) THEN ""
    ELSE LET b == AloneBatch(sec, d[j])
         IN  IF b[1] = "raise" THEN b[2] ELSE AloneErr(sec, d, j + 1)

\* the generator with the locals r has yielded what it yields alone up to
\* its k-th chunk, and has ended as it ends alone if it has ended
SameAsAlone(r) ==
    LET d == read_directory(decoder, file)
    IN  IF r.pc = "start"
        THEN r.out = <<>> /\ r.directory = <<>> /\ r.err = ""
        ELSE IF d[1] = "raise"
        THEN r.pc = "error" /\ r.err = d[2] /\ r.out = <<>>
        ELSE LET full == AloneOut(r.section, d[2], 1)
                 e == AloneErr(r.section, d[2], 1)
             IN  /\ r.directory = d[2]
                 /\ Len(r.out) = r.k
                 /\ r.k <= Len(full)
                 /\ r.out = SubSeq(full, 1, r.k)
                 /\ r.pc = "done" => (r.out = full /\ e = "" /\ r.err = "")
                 /\ r.pc = "error" => (r.out = full /\ e /= "" /\ r.err = e)
                 /\ r.pc = "loop" => r.err = ""

\* the locals of the generator that is being resumed
Running ==
    [section |-> section, pc |-> pc, directory |-> directory, k |-> k,
     out |-> out, err |-> err]

\* C26: two generators (any mix of read_blocks and read_surface) that share
\* one file object and are consumed in an arbitrary interleaving each yield
\* exactly the record sequence they yield when run alone: at every point
\* each has yielded the batches of the first chunks of its solitary run, and
\* each ends where and as its solitary run ends.
C26_SharedHandle ==
    suspended /= <<>> => (SameAsAlone(Running) /\ SameAsAlone(suspended))

\* read_blocks and read_surface of a file of two chunks, resumed in turns:
\* each has yielded its first chunk, the file object stands where the
\* suspended one left it
C26_Witness ==
    /\ suspended /= <<>>
    /\ section /= suspended.section
    /\ pc = "loop" /\ suspended.pc = "loop"
    /\ k = 1 /\ suspended.k = 1
    /\ Len(directory) = 2
    /\ pos = section_start(decoder, suspended.section, directory[1])
               + read_size(decoder, suspended.section)

(***************************************************************************)
(* Claims about the range of the offsets (SpecFn).                         *)
(***************************************************************************)
ReadDirectoryDone(dec) ==
    call[1] = "read_directory" /\ call[2] = dec /\ ret /= Pending

\* the indexes unpacked from the entries of the call that are not the
\* unused marker, in their order
UsedIndexes ==
    SelectSeq([j \in DOMAIN call[3] |-> unpack_i(call[3][j])],
              LAMBDA e : e /= INVALID_INDEX_VALUE(call[2]))

\* the highest index of format B whose offset is a C int:
\* (2^31 - 1 - directory_size) div chunk_size
MaxIndex129 == (INT_MAX - 12 * 65537) \div (16 + 32768 * 4 + 256 * 4)

\* C27: every offset returned by read_directory fits in a signed 32-bit
\* integer: in format B an index k with directory_size + k*chunk_size above
\* 2^31 - 1 (every k above 16249) makes read_directory fail with
\* OverflowError, and the offsets it returns otherwise are exactly
\* directory_size + k*chunk_size, not wrapped and not truncated (then k is
\* in -16260..16249: an index below -16260 has an offset under -2^31).
C27_OffsetsAreCInts ==
    /\ MaxIndex129 = 16249
    /\ \A dec \in Decoders :
          (ReadDirectoryDone(dec) /\ ret[1] = "ok") =>
              \A j \in 1..Len(ret[2]) : ret[2][j] >= INT_MIN /\ ret[2][j] <= INT_MAX
    /\ ReadDirectoryDone("129") =>
          IF \E j \in 1..Len(UsedIndexes) : UsedIndexes[j] > MaxIndex129
          THEN ret = <<"raise", "OverflowError">>
          ELSE ret[1] = "ok" =>
                  /\ Len(ret[2]) = Len(UsedIndexes)
                  /\ \A j \in 1..Len(ret[2]) :
                        /\ UsedIndexes[j] <= MaxIndex129
                        /\ UsedIndexes[j] >= -MaxIndex129 - 11
                        /\ ret[2][j] - 12 * 65537
                              = UsedIndexes[j] * (16 + 32768 * 4 + 256 * 4)

\* index 16249 alone gives the offset 2147474332; index 16250 after it makes
\* read_directory fail
C27_Witness ==
    /\ ReadDirectoryDone("129")
    /\ call[3] = << <<121, 63, 0, 0>>, <<122, 63, 0, 0>> >>
    /\ ret = <<"raise", "OverflowError">>
    /\ array_i(<<offset_from_index("129", 16249)>>) = <<"ok", <<2147474332>>>>

(***************************************************************************)
(* Claims about the dict of elevations and about failures (SpecMain).      *)
(***************************************************************************)
\* every chunk that the directory refers to has the decoder's magic and is
\* wholly present in the file
AllChunksComplete ==
    \A j \in 1..Len(directory) : ChunkComplete(directory[j])

\* the first and the last index of each column of blocks of a batch
ColumnEnds(b) ==
    { i \in { c * CHUNK_DEPTH + z :
                c \in 0..(CHUNK_WIDTH * CHUNK_HEIGHT - 1), z \in {0, CHUNK_DEPTH - 1} } :
        i < b.n }

\* C28: in a run with a plane relative to the surface over a file whose
\* chunks, as far as the directory refers to them, all have a valid magic
\* and complete block and surface sections, the column (x, y) of every block
\* is a key of the dict built by the surface pass: the lookup never fails,
\* and the run ends with status 0.
C28_NoMissingColumn ==
    (RelativeRun /\ section = "blocks" /\ AllChunksComplete) =>
        /\ ~KeyErrorRaised
        /\ status \in {<<"running">>, <<"exit", 0>>}
        /\ \A p \in 1..Len(out) :
              /\ out[p].n = CHUNK_WIDTH * CHUNK_HEIGHT * CHUNK_DEPTH
              /\ FirstKeyError(out[p], offsets) = out[p].n
              /\ \A i \in ColumnEnds(out[p]) : Column(out[p], i) \in DOMAIN offsets

\* plane '+0' over the chunks at (0, 0) and (0, 1): 512 keys, 512 rows
C28_Witness ==
    /\ RelativeRun /\ section = "blocks" /\ AllChunksComplete
    /\ status = <<"exit", 0>>
    /\ Len(out) = 2
    /\ out[1].chunk_y /= out[2].chunk_y
    /\ Cardinality(DOMAIN offsets) = 512
    /\ Len(DataRows) = 512

(***************************************************************************)
(* Claims about the map from indexes to coordinates (SpecParse).           *)
(***************************************************************************)
\* [16c, 16c + 15]
BoxRange(c) == (16 * c)..(16 * c + 15)

\* the index that the point (x, y, z) of the box of chunk (cx, cy) comes
\* from, and the index of the column (x, y)
BlockIndexOf(x, y, z, cx, cy) == (x - 16 * cx) * 2048 + (y - 16 * cy) * 128 + z
SurfaceIndexOf(x, y, cx, cy) == (x - 16 * cx) * 16 + (y - 16 * cy)

\* every point of the box is the image of an index in range: the maps are
\* onto the box (for the sampled grid positions)
OntoTheBox ==
    \A g \in GridSamples : \A x \in BoxRange(g[1]) : \A y \in BoxRange(g[2]) :
        /\ SurfaceIndexOf(x, y, g[1], g[2]) \in 0..255
        /\ ItemCoordinates("surface", SurfaceIndexOf(x, y, g[1], g[2]), g[1], g[2])
              = <<x, y>>
        /\ \A z \in 0..127 :
              /\ BlockIndexOf(x, y, z, g[1], g[2]) \in 0..32767
              /\ ItemCoordinates("blocks", BlockIndexOf(x, y, z, g[1], g[2]),
                                 g[1], g[2]) = <<x, y, z>>

\* C29: for a chunk (cx, cy) the map from the index i in 0..32767 to
\* (x, y, z) is a bijection onto [16cx, 16cx+15] x [16cy, 16cy+15] x [0, 127]
\* and the map from i in 0..255 to the surface (x, y) is a bijection onto
\* [16cx, 16cx+15] x [16cy, 16cy+15]: the image lies in the box, the index
\* is recovered from the image, every point of the box is an image; the
\* chunk is recovered from the image as well, so chunks with distinct grid
\* coordinates give disjoint sets of coordinates.
C29_IndexBijection ==
    /\ OntoTheBox
    /\ (call[1] = "parse_block" /\ ret /= Pending /\ ArgI \in 0..32767) =>
          /\ Parsed.x \in BoxRange(ArgChunkX)
          /\ Parsed.y \in BoxRange(ArgChunkY)
          /\ Parsed.z \in 0..127
          /\ BlockIndexOf(Parsed.x, Parsed.y, Parsed.z, ArgChunkX, ArgChunkY) = ArgI
          /\ <<Parsed.x \div 16, Parsed.y \div 16>> = <<ArgChunkX, ArgChunkY>>
    /\ (ParseSurfaceDone /\ ArgI \in 0..255) =>
          /\ Parsed.x \in BoxRange(ArgChunkX)
          /\ Parsed.y \in BoxRange(ArgChunkY)
          /\ SurfaceIndexOf(Parsed.x, Parsed.y, ArgChunkX, ArgChunkY) = ArgI
          /\ <<Parsed.x \div 16, Parsed.y \div 16>> = <<ArgChunkX, ArgChunkY>>

\* the last surface point of chunk (3, 1) is the corner (63, 31) of its box
C29_Witness ==
    /\ ParseSurfaceDone
    /\ ArgChunkX = 3 /\ ArgChunkY = 1 /\ ArgI = 255
    /\ Parsed.x = 63 /\ Parsed.y = 31
    /\ SurfaceIndexOf(63, 31, 3, 1) = 255

\* a chunk that the directory refers to has a header with another magic
\* than the decoder's
WrongMagicListed ==
    \E j \in 1..Len(directory) :
        /\ read_header(decoder, file, directory[j])[1] = "ok"
        /\ read_header(decoder, file, directory[j])[2].magic /= MAGIC(decoder)

\* the reader of the rows has failed on the magic of chunk k + 1 of the
\* directory, having yielded the chunks 1..k before it
RowsFailedAtMagic ==
    /\ mpc = "exit"
    /\ pc = "error" /\ err = "ValueError"
    /\ k < Len(directory)
    /\ read_header(decoder, file, directory[k + 1])[2].magic /= MAGIC(decoder)
    /\ Len(out) = k
    /\ \A j \in 1..k : out[j].offset = directory[j]

\* all the records of the batches p.. yielded, in order
RECURSIVE RecordsOfBatches(_)
RecordsOfBatches(p) ==
    IF p > Len(out) THEN <<>>
    ELSE Records(decoder, section, file, out[p], Indexes(out[p].n))
         \o RecordsOfBatches(p + 1)

\* C30: in a run with a plane relative to the surface over a file one of
\* whose listed chunks has a wrong magic, the run fails during the surface
\* pass and nothing at all is written, neither the header row nor a block
\* row of a valid chunk before the bad one; with an absolute plane or no
\* filter the header row and the matching rows of all the chunks before the
\* bad one have been written when the run fails.
C30_WrongMagicOutput ==
    /\ (RelativeRun /\ WrongMagicListed) =>
          /\ rows = <<>>
          /\ section = "surface"
          /\ mpc \in {"surface", "exit"}
          /\ mpc = "exit" => /\ status = <<"exit", 1>>
                             /\ pc = "error"
                             /\ err \in {"ValueError", "struct.error", "seek"}
    /\ (mpc = "exit" /\ status = <<"exit", 0>> /\ pc = "done") => ~WrongMagicListed
    /\ (~RelativeRun /\ RowsFailedAtMagic) =>
          /\ status = <<"exit", 1>>
          /\ rows /= <<>>
          /\ rows[1] = fields(args.extract_data)
          /\ DataRows = IF AbsoluteRun THEN BlocksOfPlane(1) ELSE RecordsOfBatches(1)

\* plane '+0', the second of two chunks has a wrong magic: the surface of the
\* first chunk was read, the run has failed, nothing is written
C30_Witness ==
    /\ RelativeRun /\ WrongMagicListed
    /\ mpc = "exit" /\ status = <<"exit", 1>> /\ err = "ValueError"
    /\ Len(out) = 1 /\ k = 1
    /\ Cardinality(DOMAIN offsets) = 256
    /\ rows = <<>>

\* plane '10' on that file: the header and the 256 rows of the first chunk
\* are written, the run has failed
C30_AbsoluteCase ==
    /\ AbsoluteRun /\ RowsFailedAtMagic
    /\ k = 1
    /\ Len(rows) = 257

====
